---------------------------- MODULE Spec2Model ----------------------------
(***************************************************************************)
(* A model of the task-generation and evaluation pipeline of the           *)
(* LLM deployment system: utils/task_generator.py (SeedGenerator,          *)
(* TaskTemplate, TaskGenerator) and coreapp/evaluate.py                     *)
(* (RepositoryEvaluator).                                                   *)
(*                                                                          *)
(* Text is modelled by TLA+ strings.  A template string is a sequence of    *)
(* segments in which each placeholder ("{seed}", "{result}") is a segment   *)
(* of its own, so that str.replace is a map over the segments; the text is  *)
(* the concatenation of the segments.  The grave accent of the source's     *)
(* strings (a JavaScript template literal, a Markdown code fence) is        *)
(* written as a tilde: the parser does not take it inside a string.         *)
(***************************************************************************)
EXTENDS Integers, Sequences, FiniteSets, TLC

VARIABLES
    now,            \* the wall clock read by datetime.now(), in ticks
    templates,      \* TaskGenerator.templates: insertion-ordered dict, [ids, data]
    result_cache,   \* TaskTemplate._result_cache of every registered template
    uuid_issued,    \* how many identifiers the uuid source has handed out
    ref,            \* an earlier call and what it returned
    last,           \* the latest call and what it returned
    evaluation,     \* the latest evaluate_repository run: its environment and result
    tasks,          \* the tasks table: task_id -> [id, nonce, status]
    repositories,   \* the repositories table, in order of insertion
    evaluations,    \* the evaluations table, in order of insertion
    evaluation_queue, \* EvaluationAPI.evaluation_queue
    requests,       \* the intake requests and where their handlers stand
    worker,         \* EvaluationAPI._evaluation_worker: where it stands, its job
    enqueued,       \* every job ever put on the queue, in order
    handled,        \* every job the worker has finished with, in order
    clock,          \* time.time() as _check_rate_limit reads it, in ticks
    rate_limits,    \* APIServer.rate_limits: email -> the entry object it holds
    entries,        \* the entry objects ever created: [count, timestamp]
    checked,        \* every finished _check_rate_limit call: whose, when, the answer
    callers,        \* the request threads inside _check_rate_limit
    sweeper,        \* the thread of cleanup_rate_limits
    submissions,    \* the submissions table: email -> [id, secret]
    generations     \* the threads inside TaskTemplate.generate_task

\* the state of the two intake services and of the worker
intake == <<tasks, repositories, evaluations, evaluation_queue, requests, worker,
            enqueued, handled>>

\* the state of the rate limiter of api_server.py
limiter == <<clock, rate_limits, entries, checked, callers, sweeper>>

vars == <<now, templates, result_cache, uuid_issued, ref, last, evaluation, intake,
          limiter, submissions, generations>>

---------------------------------------------------------------------------
(* Bounds of the model *)

MaxNow == 2             \* the clock stops after this many ticks
TicksPerHour == 2       \* clock ticks in one UTC hour bucket
MaxUuid == 2            \* identifiers the uuid source hands out in one run
MaxRequests == 2        \* intake requests received in one run
MaxClock == 5           \* the limiter's clock stops after this many ticks
SecondsPerClockTick == 20   \* seconds in one tick of the limiter's clock
MaxChecks == 4          \* calls of _check_rate_limit in one run
RATE_LIMIT_PER_MINUTE == 2  \* config.RATE_LIMIT_PER_MINUTE as configured here
Window == 60            \* window_start = current_time - 60
SweepInterval == 300    \* time.sleep(300) in cleanup_rate_limits
MaxCallers == 2         \* request threads inside _check_rate_limit at once

---------------------------------------------------------------------------
(* Python values and string helpers *)

None == "None"

\* the empty dict
EmptyDict == [k \in {} |-> None]

RECURSIVE Join(_)
\* ''.join(segments)
Join(segments) ==
    IF segments = <<>> THEN "" ELSE Head(segments) \o Join(Tail(segments))

\* str(n) for n >= 0
str(n) == ToString(n)

StartsWith(s, prefix) ==
    /\ Len(prefix) <= Len(s)
    /\ SubSeq(s, 1, Len(prefix)) = prefix

HexDigits == "0123456789abcdef"
HexValues ==
    [c \in {SubSeq(HexDigits, i, i) : i \in 1..16} |->
        (CHOOSE i \in 1..16 : SubSeq(HexDigits, i, i) = c) - 1]
HexValue(c) == HexValues[c]

RECURSIVE HexMod(_, _, _)
\* int(hex, 16) % n, digit by digit (Horner), acc the residue of the prefix read
HexMod(hex, n, acc) ==
    IF hex = "" THEN acc
    ELSE HexMod(SubSeq(hex, 2, Len(hex)), n, (acc * 16 + HexValue(SubSeq(hex, 1, 1))) % n)

---------------------------------------------------------------------------
(* hashlib and random.Random, tabulated on the inputs the model draws:     *)
(* every entry is the value CPython computes for that input.               *)

\* hashlib.sha256(data.encode()).hexdigest() on the inputs the model draws
SHA256_HEXDIGEST ==
    ("test@example.com:2024-01-15-09" :> "144fe843a5a19e130804219fac7b16a9da52d63181994af9b0e83679f4643df3") @@
    ("test@example.com:2024-01-15-10" :> "4f87e0ad16d55f1766b5330d9c9e6d3df750016b46bbe74376fc19224c268ce5") @@
    ("test@example.com:2024-01-15-11" :> "53168411e210b2c65330c41e0e4c27c6f4d55202367bb19000447491f1312da6") @@
    ("test@example.com:2024-01-15-12" :> "d11eb2ec74e7fb5f9670f0b7d4f77aebf77220064c58446d8da46214ceb96e40") @@
    ("alice@example.com:2024-01-15-09" :> "bacff2c6022ff2bc3eccaf7db319f2cdb6b3e643e42739f010ca8e496d3ae330") @@
    ("alice@example.com:2024-01-15-10" :> "5a56f01aeb1e7e8a4661c8f1c9b03cc3f52fe5dc1fff261af6fad83bbdb88a5b") @@
    ("alice@example.com:2024-01-15-11" :> "fa838332e5377f8d94c19d45fa04cf39bc465b0cd8a6bf1cd8c80ab97a4ac244") @@
    ("alice@example.com:2024-01-15-12" :> "6f08a2035fbf71441ea9861d1c43d1d174692a82ed849769e0d8e9aa3f1bbf51") @@
    ("carol@example.com:2024-01-15-09" :> "4e55e8e8e035f5d82b27e28015e7edfc860751be1990a3c1e4e52e51d5dfe4a4") @@
    ("carol@example.com:2024-01-15-10" :> "30f8cc883cc1122ec5cb8f2fdb6fc05080e78d31de458c5a7e8e6f87f0a9ac74") @@
    ("carol@example.com:2024-01-15-11" :> "d17de79026c92687f9b566950a4f1d32a453c2a9ba76715af092c005256df4f0") @@
    ("carol@example.com:2024-01-15-12" :> "e7d67f66ca0ba8354f26b252f71ebe8e35d67bf36c2007c7d4b53802fb036af0") @@
    ("dave@example.com:2024-01-15-09" :> "205a5e7116bcf96526af98107f2df498e2cb9b54bcfa532dfa6d43c8117ae777") @@
    ("dave@example.com:2024-01-15-10" :> "c834c941821bedd51ac8569cc895ced9275376a9177eb0c1a1d88e547021e56a") @@
    ("dave@example.com:2024-01-15-11" :> "3f50c7581b096018cb20d180bb74e9bacb2fee953a0dc652909bd72c8d135377") @@
    ("dave@example.com:2024-01-15-12" :> "755d73f92e1f2d117937a5e5a1399304268958c83b17cbdbce6c70a8354a550b")

\* hashlib.md5(data.encode()).hexdigest() on the inputs the model draws
MD5_HEXDIGEST ==
    ("test@example.com" :> "55502f40dc8b7c769880b10874abc9d0") @@
    ("alice@example.com" :> "c160f8cc69a4f0bf2b0362752353d060") @@
    ("carol@example.com" :> "d4766e3f21c67b7c786f012d910fa54f") @@
    ("dave@example.com" :> "6c1265401f75f9840d9c267655954800") @@
    ("sum-of-sales:144fe843a5a19e13" :> "370ec73186059b5559ce376325bc8b1e") @@
    ("sum-of-sales:4f87e0ad16d55f17" :> "e348a8844f3b81d22c2a7e576c979852") @@
    ("sum-of-sales:53168411e210b2c6" :> "2fdebe220582b5e0531b9e4dbdd5a725") @@
    ("sum-of-sales:d11eb2ec74e7fb5f" :> "40c072ead75b1c949f5fcf6c53cc2521") @@
    ("sum-of-sales:bacff2c6022ff2bc" :> "0c4270edfe0795ec98b909404bcf3673") @@
    ("sum-of-sales:5a56f01aeb1e7e8a" :> "30667fbeee1b1a6be4782d50d6be798b") @@
    ("sum-of-sales:fa838332e5377f8d" :> "1c8dd9031d83c5840088674ece68130c") @@
    ("sum-of-sales:6f08a2035fbf7144" :> "03a46136613e117d71fbf14ea148a75a") @@
    ("sum-of-sales:4e55e8e8e035f5d8" :> "d3c84f3d8885a820b30a039fd84b7052") @@
    ("sum-of-sales:30f8cc883cc1122e" :> "9015992537a49f21a95aeb9cfccdfe77") @@
    ("sum-of-sales:d17de79026c92687" :> "ad9d0848dc71f59b6a5243d9ca3d9e7e") @@
    ("sum-of-sales:e7d67f66ca0ba835" :> "a984b0deb0f69627c55a76441fbfe43f") @@
    ("sum-of-sales:205a5e7116bcf965" :> "dc9b6bc0b52b4d3413d7bbe85e745667") @@
    ("sum-of-sales:c834c941821bedd5" :> "b3fae7b7b031d7bd6be84866c3feb3c3") @@
    ("sum-of-sales:3f50c7581b096018" :> "2a2cac0b406900da018d9a34e08ea768") @@
    ("sum-of-sales:755d73f92e1f2d11" :> "86e027958acab1d4a868a007d6a2a597") @@
    ("markdown-to-html:144fe843a5a19e13" :> "9eef279b306fcfa72c03847627fa9dcc") @@
    ("markdown-to-html:4f87e0ad16d55f17" :> "fb12046d82be7f5d2c66f2c92030d555") @@
    ("markdown-to-html:53168411e210b2c6" :> "70241b958e4f0b5769c2bb4c545da3c4") @@
    ("markdown-to-html:d11eb2ec74e7fb5f" :> "b2631317d4d737552a165cec498807c6") @@
    ("markdown-to-html:bacff2c6022ff2bc" :> "1ff4d5020dd62d42d2bc53c676e708e0") @@
    ("markdown-to-html:5a56f01aeb1e7e8a" :> "f2719602482ffc260cd1b42126bd4b5e") @@
    ("markdown-to-html:fa838332e5377f8d" :> "d364356dfbbe2f62a1bf49834d4b5771") @@
    ("markdown-to-html:6f08a2035fbf7144" :> "34767e4a4aeb523a0c9fd24f20621338") @@
    ("markdown-to-html:4e55e8e8e035f5d8" :> "67186a48e03be72ef8ad4a9f23728916") @@
    ("markdown-to-html:30f8cc883cc1122e" :> "09d9dd8fed5c824678a64ff9cee84f97") @@
    ("markdown-to-html:d17de79026c92687" :> "d031a842cca27252ff56f2207102ba90") @@
    ("markdown-to-html:e7d67f66ca0ba835" :> "9e8d08620985bbef33e81d2e56790543") @@
    ("markdown-to-html:205a5e7116bcf965" :> "b270c51c766ff1dfdc0cf5496b208ee8") @@
    ("markdown-to-html:c834c941821bedd5" :> "1d3c2b4b2c45e9e7923ce4359d29d382") @@
    ("markdown-to-html:3f50c7581b096018" :> "4b8a496cea7df3a0b2b6a0c3562ec8a0") @@
    ("markdown-to-html:755d73f92e1f2d11" :> "d98ef81a41c396799825812d4c358241") @@
    ("github-user-created:144fe843a5a19e13" :> "f86436de1c39f5d46ab3061e912c77e2") @@
    ("github-user-created:4f87e0ad16d55f17" :> "533ee80559387ee710f9f0c980e6f271") @@
    ("github-user-created:53168411e210b2c6" :> "92ea169fd4b7fa380c9030122f63d30c") @@
    ("github-user-created:d11eb2ec74e7fb5f" :> "71fef59fffca0077be976316c5b82cf5") @@
    ("github-user-created:bacff2c6022ff2bc" :> "fbbb94e9ae83abb80447c82e0b7d1163") @@
    ("github-user-created:5a56f01aeb1e7e8a" :> "2712fb5da9990bdd4e09c2e8641f6310") @@
    ("github-user-created:fa838332e5377f8d" :> "2a7604cd129cbdfa25df53dc09dbb308") @@
    ("github-user-created:6f08a2035fbf7144" :> "4ca7cc8c556b77d35bd716041f725c6d") @@
    ("github-user-created:4e55e8e8e035f5d8" :> "a5c46fbcca124b344f52aca0efac3ef6") @@
    ("github-user-created:30f8cc883cc1122e" :> "82f7f52fa7e9bfc53824bd526e6bdd2a") @@
    ("github-user-created:d17de79026c92687" :> "51d51553f7f954f24534284c6e6a8219") @@
    ("github-user-created:e7d67f66ca0ba835" :> "c291f3a73da37bfc3c6da58565001d16") @@
    ("github-user-created:205a5e7116bcf965" :> "7ddefdc2f94866802a1e1aee652133a1") @@
    ("github-user-created:c834c941821bedd5" :> "bd8888915931463b328c787bfd34403d") @@
    ("github-user-created:3f50c7581b096018" :> "0deb98fcd13d8cb83886888167580f4b") @@
    ("github-user-created:755d73f92e1f2d11" :> "7efbe5ca4bece2c9aafc773f3d22c89c") @@
    ("currency-converter:144fe843a5a19e13" :> "0c4bb8c3ef32e1c38d4b9c7443ff5068") @@
    ("currency-converter:4f87e0ad16d55f17" :> "c4bd6f18ed49dd23ed48927b1489c63a") @@
    ("currency-converter:53168411e210b2c6" :> "984cda56d8da4dc7af8540907cc82478") @@
    ("currency-converter:d11eb2ec74e7fb5f" :> "077a5198641d6e21ccd3415994579e68") @@
    ("currency-converter:bacff2c6022ff2bc" :> "7466a9b77afc42b5fa672fead7638b59") @@
    ("currency-converter:5a56f01aeb1e7e8a" :> "a63bef5acb113c4f565be8f4bd8759ef") @@
    ("currency-converter:fa838332e5377f8d" :> "98fa94523db31f7a6aef255d7a1b184e") @@
    ("currency-converter:6f08a2035fbf7144" :> "34190f9d445f6552ff9498f73c79f53e") @@
    ("currency-converter:4e55e8e8e035f5d8" :> "b804f3931c83a4fe3271fbf820b0b0e6") @@
    ("currency-converter:30f8cc883cc1122e" :> "31cc00a9cc215a6a874a912a5c51b048") @@
    ("currency-converter:d17de79026c92687" :> "dcf9cd846c371b1b17d779c6fabc929e") @@
    ("currency-converter:e7d67f66ca0ba835" :> "91ce20eac09725c34e93ac808853d42b") @@
    ("currency-converter:205a5e7116bcf965" :> "d880ef15a670b3ee9757ed3df881a0d8") @@
    ("currency-converter:c834c941821bedd5" :> "486b199af12fd7ad4e14db6a2221c4a2") @@
    ("currency-converter:3f50c7581b096018" :> "e58e845077be06e309fa0ca00c7dd51b") @@
    ("currency-converter:755d73f92e1f2d11" :> "9ae1cb0617f9b71a621a521ee321928e")

RANDOM_DRAWS ==
    ("144fe843a5a19e13" :> [shuffle |-> <<"Product A", "Product B", "Product D", "Product C">>, randint_2_4 |-> 3,
         randint_100_1000 |-> <<112, 525, 402>>, choice_region |-> <<"South", "East", "North">>,
         randint_1000_9999 |-> 5638, randint_1000_99999 |-> 98041, choice_chars |-> "s0ral0rsfdzf"]) @@
    ("4f87e0ad16d55f17" :> [shuffle |-> <<"Product B", "Product C", "Product D", "Product A">>, randint_2_4 |-> 3,
         randint_100_1000 |-> <<479, 940, 376>>, choice_region |-> <<"North", "West", "North">>,
         randint_1000_9999 |-> 2037, randint_1000_99999 |-> 9302, choice_chars |-> "efbyxazr9bz1"]) @@
    ("53168411e210b2c6" :> [shuffle |-> <<"Product D", "Product B", "Product A", "Product C">>, randint_2_4 |-> 2,
         randint_100_1000 |-> <<842, 416>>, choice_region |-> <<"West", "West">>,
         randint_1000_9999 |-> 5264, randint_1000_99999 |-> 85781, choice_chars |-> "9qbvf4t08sol"]) @@
    ("d11eb2ec74e7fb5f" :> [shuffle |-> <<"Product C", "Product A", "Product B", "Product D">>, randint_2_4 |-> 3,
         randint_100_1000 |-> <<489, 231, 785>>, choice_region |-> <<"North", "South", "South">>,
         randint_1000_9999 |-> 7441, randint_1000_99999 |-> 52533, choice_chars |-> "z49e0yhip6kd"]) @@
    ("bacff2c6022ff2bc" :> [shuffle |-> <<"Product B", "Product C", "Product A", "Product D">>, randint_2_4 |-> 2,
         randint_100_1000 |-> <<563, 374>>, choice_region |-> <<"West", "South">>,
         randint_1000_9999 |-> 9985, randint_1000_99999 |-> 87356, choice_chars |-> "95aio2yrp6ln"]) @@
    ("5a56f01aeb1e7e8a" :> [shuffle |-> <<"Product A", "Product B", "Product C", "Product D">>, randint_2_4 |-> 3,
         randint_100_1000 |-> <<117, 921, 523>>, choice_region |-> <<"East", "North", "East">>,
         randint_1000_9999 |-> 8740, randint_1000_99999 |-> 62921, choice_chars |-> "485vbrg0the3"]) @@
    ("fa838332e5377f8d" :> [shuffle |-> <<"Product A", "Product D", "Product C", "Product B">>, randint_2_4 |-> 2,
         randint_100_1000 |-> <<280, 175>>, choice_region |-> <<"North", "North">>,
         randint_1000_9999 |-> 4637, randint_1000_99999 |-> 30101, choice_chars |-> "o6whlhec5vgl"]) @@
    ("6f08a2035fbf7144" :> [shuffle |-> <<"Product C", "Product B", "Product A", "Product D">>, randint_2_4 |-> 2,
         randint_100_1000 |-> <<302, 582>>, choice_region |-> <<"West", "North">>,
         randint_1000_9999 |-> 8055, randint_1000_99999 |-> 57447, choice_chars |-> "1p0omz4e6qtn"]) @@
    ("4e55e8e8e035f5d8" :> [shuffle |-> <<"Product B", "Product A", "Product D", "Product C">>, randint_2_4 |-> 4,
         randint_100_1000 |-> <<414, 966, 645, 305>>, choice_region |-> <<"West", "East", "South", "East">>,
         randint_1000_9999 |-> 7026, randint_1000_99999 |-> 49212, choice_chars |-> "x9et3v8jmwup"]) @@
    ("30f8cc883cc1122e" :> [shuffle |-> <<"Product D", "Product B", "Product C", "Product A">>, randint_2_4 |-> 2,
         randint_100_1000 |-> <<845, 605>>, choice_region |-> <<"West", "North">>,
         randint_1000_9999 |-> 2395, randint_1000_99999 |-> 12163, choice_chars |-> "ftn35fzsie71"]) @@
    ("d17de79026c92687" :> [shuffle |-> <<"Product C", "Product A", "Product B", "Product D">>, randint_2_4 |-> 4,
         randint_100_1000 |-> <<284, 849, 789, 288>>, choice_region |-> <<"South", "East", "South", "North">>,
         randint_1000_9999 |-> 7680, randint_1000_99999 |-> 54447, choice_chars |-> "0rkllvjlc6xi"]) @@
    ("e7d67f66ca0ba835" :> [shuffle |-> <<"Product A", "Product D", "Product C", "Product B">>, randint_2_4 |-> 3,
         randint_100_1000 |-> <<360, 815, 266>>, choice_region |-> <<"East", "North", "South">>,
         randint_1000_9999 |-> 9933, randint_1000_99999 |-> 72465, choice_chars |-> "8jr0q7vfkjot"]) @@
    ("205a5e7116bcf965" :> [shuffle |-> <<"Product C", "Product D", "Product B", "Product A">>, randint_2_4 |-> 4,
         randint_100_1000 |-> <<148, 646, 883, 302>>, choice_region |-> <<"South", "West", "East", "North">>,
         randint_1000_9999 |-> 1184, randint_1000_99999 |-> 99811, choice_chars |-> "avg9dl8ysmhb"]) @@
    ("c834c941821bedd5" :> [shuffle |-> <<"Product A", "Product B", "Product C", "Product D">>, randint_2_4 |-> 2,
         randint_100_1000 |-> <<169, 923>>, choice_region |-> <<"South", "South">>,
         randint_1000_9999 |-> 8071, randint_1000_99999 |-> 57571, choice_chars |-> "16tnemoku9kd"]) @@
    ("3f50c7581b096018" :> [shuffle |-> <<"Product D", "Product C", "Product A", "Product B">>, randint_2_4 |-> 2,
         randint_100_1000 |-> <<611, 986>>, choice_region |-> <<"South", "East">>,
         randint_1000_9999 |-> 3645, randint_1000_99999 |-> 22161, choice_chars |-> "kdne5nsu9lmd"]) @@
    ("755d73f92e1f2d11" :> [shuffle |-> <<"Product D", "Product B", "Product C", "Product A">>, randint_2_4 |-> 2,
         randint_100_1000 |-> <<852, 605>>, choice_region |-> <<"North", "South">>,
         randint_1000_9999 |-> 2017, randint_1000_99999 |-> 80199, choice_chars |-> "d9wha5mypgsu"])

sha256_hexdigest(data) == SHA256_HEXDIGEST[data]
md5_hexdigest(data) == MD5_HEXDIGEST[data]

\* random.Random(seed): the results of the calls the source makes on a
\* generator freshly seeded with seed, in the order the source makes them
Random(seed) == RANDOM_DRAWS[seed]

---------------------------------------------------------------------------
(* The clock: datetime.now() *)

\* the clock starts at 2024-01-15 09:00 UTC
HourOf(t) == 9 + t \div TicksPerHour
MinuteOf(t) == ((t % TicksPerHour) * 60) \div TicksPerHour
Pad2(n) == IF n < 10 THEN "0" \o ToString(n) ELSE ToString(n)

\* datetime.now(timezone.utc).strftime("%Y-%m-%d-%H")
strftime_hour(t) == "2024-01-15-" \o Pad2(HourOf(t))

\* datetime.now().isoformat()
isoformat(t) == "2024-01-15T" \o Pad2(HourOf(t)) \o ":" \o Pad2(MinuteOf(t)) \o ":00"

---------------------------------------------------------------------------
(* SeedGenerator *)

\* A buggy variant: the bucket is read from the clock, not from the argument
generate_seed_from_clock(email, date_string) ==
    SubSeq(sha256_hexdigest(email \o ":" \o strftime_hour(now)), 1, 16)

generate_seed(email, date_string) ==
    LET seed_data == email \o ":" \o date_string
        seed_hash == sha256_hexdigest(seed_data)
    IN  SubSeq(seed_hash, 1, 16)

RECURSIVE csv_rows(_, _, _, _, _)
\* the loop over products[:rng.randint(2, 4)]: row i is appended to csv_data
\* and its sales are added to total
csv_rows(rng, count, i, csv_data, total) ==
    IF i > count THEN <<csv_data, total>>
    ELSE LET product == rng.shuffle[i]
             sales == rng.randint_100_1000[i]
             region == rng.choice_region[i]
         IN  csv_rows(rng, count, i + 1,
                      csv_data \o product \o "," \o str(sales) \o "," \o region \o "\n",
                      total + sales)

markdown_content(seed, generated_at) ==
    "# Sample Markdown Content\n\n"
    \o "This is a sample markdown file generated for task " \o SubSeq(seed, 1, 8) \o ".\n\n"
    \o "## Features\n\n"
    \o "- Random seed: " \o seed \o "\n"
    \o "- Generated at: " \o generated_at \o "\n"
    \o "- Contains various markdown elements\n\n"
    \o "### Code Example\n\n"
    \o "~~~python\ndef hello_world():\n    print(\"Hello, World!\")\n    return \"success\"\n~~~\n\n"
    \o "### Lists\n\n1. Item one\n2. Item two\n3. Item three\n\n"
    \o "- Bullet item A\n- Bullet item B\n- Bullet item C\n\n"
    \o "> This is a blockquote with some **bold** and *italic* text.\n\n"
    \o "| Column 1 | Column 2 | Column 3 |\n"
    \o "|----------|----------|----------|\n"
    \o "| Data 1   | Data 2   | Data 3   |\n"
    \o "| Data 4   | Data 5   | Data 6   |\n"

json_content(seed, generated_at) ==
    [currencies |-> [USD |-> "1.0", EUR |-> "0.85", GBP |-> "0.73",
                     JPY |-> "110.0", CAD |-> "1.25"],
     metadata |-> [seed |-> seed, generated_at |-> generated_at]]

\* json.dumps of the dict json_content builds
json_dumps(d) ==
    "{\"currencies\": {\"USD\": " \o d.currencies.USD
    \o ", \"EUR\": " \o d.currencies.EUR
    \o ", \"GBP\": " \o d.currencies.GBP
    \o ", \"JPY\": " \o d.currencies.JPY
    \o ", \"CAD\": " \o d.currencies.CAD
    \o "}, \"metadata\": {\"seed\": \"" \o d.metadata.seed
    \o "\", \"generated_at\": \"" \o d.metadata.generated_at \o "\"}}"

\* reads the clock (datetime.now()) for the markdown and json fixtures
generate_random_data(seed, data_type, length) ==
    LET rng == Random(seed) IN
    CASE data_type = "string" -> SubSeq(rng.choice_chars, 1, length)
      [] data_type = "number" -> rng.randint_1000_99999
      [] data_type = "csv_data" ->
            csv_rows(rng, rng.randint_2_4, 1, "Product,Sales,Region\n", 0)
      [] data_type = "markdown" -> markdown_content(seed, isoformat(now))
      [] data_type = "json" -> json_content(seed, isoformat(now))
      [] OTHER -> None

---------------------------------------------------------------------------
(* base64.b64encode over ASCII text *)

\* the ASCII characters 32..95 and 97..126
PrintableLow == " !\"#$%&'()*+,-./0123456789:;<=>?@ABCDEFGHIJKLMNOPQRSTUVWXYZ[\\]^_"
PrintableHigh == "abcdefghijklmnopqrstuvwxyz{|}~"

\* the ordinals of the ASCII characters: "\n" and 32..126 but the grave accent
Ordinals ==
    [c \in {"\n"} \cup {SubSeq(PrintableLow, i, i) : i \in 1..Len(PrintableLow)}
                   \cup {SubSeq(PrintableHigh, i, i) : i \in 1..Len(PrintableHigh)} |->
        IF c = "\n" THEN 10
        ELSE IF \E i \in 1..Len(PrintableLow) : SubSeq(PrintableLow, i, i) = c
        THEN 31 + (CHOOSE i \in 1..Len(PrintableLow) : SubSeq(PrintableLow, i, i) = c)
        ELSE 96 + (CHOOSE i \in 1..Len(PrintableHigh) : SubSeq(PrintableHigh, i, i) = c)]

\* ord(c)
Ord(c) == Ordinals[c]

Base64Alphabet == "ABCDEFGHIJKLMNOPQRSTUVWXYZabcdefghijklmnopqrstuvwxyz0123456789+/"
Base64Chars == [i \in 1..64 |-> SubSeq(Base64Alphabet, i, i)]
B64Char(v) == Base64Chars[v + 1]

\* one group of up to three bytes: four characters, padded with "="
b64encode_group(s) ==
    LET b(i) == Ord(SubSeq(s, i, i)) IN
    IF Len(s) = 0 THEN ""
    ELSE IF Len(s) = 1 THEN
        B64Char(b(1) \div 4) \o B64Char((b(1) % 4) * 16) \o "=="
    ELSE IF Len(s) = 2 THEN
        B64Char(b(1) \div 4) \o B64Char((b(1) % 4) * 16 + b(2) \div 16)
            \o B64Char((b(2) % 16) * 4) \o "="
    ELSE
        B64Char(b(1) \div 4) \o B64Char((b(1) % 4) * 16 + b(2) \div 16)
            \o B64Char((b(2) % 16) * 4 + b(3) \div 64) \o B64Char(b(3) % 64)

RECURSIVE b64encode_groups(_)
\* the groups of three bytes, in order (the text is halved at a group
\* boundary to keep the recursion shallow)
b64encode_groups(s) ==
    IF Len(s) <= 3 THEN b64encode_group(s)
    ELSE LET half == 3 * ((Len(s) \div 3 + 1) \div 2)
         IN  b64encode_groups(SubSeq(s, 1, half))
                 \o b64encode_groups(SubSeq(s, half + 1, Len(s)))

\* the encodings of the CSV fixtures, computed once
CsvEncodings ==
    [s \in {csv_rows(Random(seed), Random(seed).randint_2_4, 1,
                     "Product,Sales,Region\n", 0)[1] : seed \in DOMAIN RANDOM_DRAWS} |->
        b64encode_groups(s)]

\* base64.b64encode(s.encode()).decode()
b64encode(s) == IF s \in DOMAIN CsvEncodings THEN CsvEncodings[s] ELSE b64encode_groups(s)

---------------------------------------------------------------------------
(* TaskTemplate *)

default_templates ==
  <<
    [template_id |-> "sum-of-sales",
     brief_template |->
       <<"Publish a single-page site that fetches data.csv from attachments, sums its sales column, sets the title to \"Sales Summary ", "{seed}", "\", displays the total inside #total-sales, and loads Bootstrap 5 from jsdelivr.">>,
     checks_template |->
       <<<<"Repo has MIT license">>,
           <<"README.md is professional">>,
           <<"js: document.title === ~Sales Summary ", "{seed}", "~">>,
           <<"js: !!document.querySelector(\"link[href*='bootstrap']\")">>,
           <<"js: Math.abs(parseFloat(document.querySelector(\"#total-sales\").textContent) - ", "{result}", ") < 0.01">>>>,
     attachments_template |->
       <<[name |-> "data.csv", url |-> <<"data:text/csv;base64,", "{seed}">>]>>,
     round2_brief_template |->
       <<"Add a Bootstrap table #product-sales that lists each product with its total sales and keeps #total-sales accurate after render.">>,
     round2_checks_template |->
       <<<<"js: document.querySelectorAll(\"#product-sales tbody tr\").length >= 1">>,
           <<"js: (() => { const rows = [...document.querySelectorAll(\"#product-sales tbody tr td:last-child\")]; const sum = rows.reduce((acc, cell) => acc + parseFloat(cell.textContent), 0); return Math.abs(sum - ", "{result}", ") < 0.01; })()">>>>,
     round2_attachments_template |->
       <<>>],
    [template_id |-> "markdown-to-html",
     brief_template |->
       <<"Publish a static page that converts input.md from attachments to HTML with marked, renders it inside #markdown-output, and loads highlight.js for code blocks.">>,
     checks_template |->
       <<<<"Repo has MIT license">>,
           <<"README.md is professional">>,
           <<"js: !!document.querySelector(\"script[src*='marked']\")">>,
           <<"js: !!document.querySelector(\"script[src*='highlight.js']\") || !!document.querySelector(\"link[href*='highlight.js']\")">>,
           <<"js: document.querySelector(\"#markdown-output\").innerHTML.includes(\"<h\")">>>>,
     attachments_template |->
       <<[name |-> "input.md", url |-> <<"data:text/markdown;base64,", "{seed}">>]>>,
     round2_brief_template |->
       <<"Add tabs #markdown-tabs that switch between rendered HTML in #markdown-output and the original Markdown in #markdown-source while keeping content in sync.">>,
     round2_checks_template |->
       <<<<"js: document.querySelectorAll(\"#markdown-tabs button\").length >= 2">>,
           <<"js: document.querySelector(\"#markdown-source\").textContent.trim().length > 0">>>>,
     round2_attachments_template |->
       <<>>],
    [template_id |-> "github-user-created",
     brief_template |->
       <<"Publish a Bootstrap page with form id=\"github-user-", "{seed}", "\" that fetches a GitHub username, optionally uses ?token=, and displays the account creation date in YYYY-MM-DD UTC inside #github-created-at.">>,
     checks_template |->
       <<<<"Repo has MIT license">>,
           <<"README.md is professional">>,
           <<"js: document.querySelector(\"#github-user-", "{seed}", "\").tagName === \"FORM\"">>,
           <<"js: !!document.querySelector(\"script\").textContent.includes(\"https://api.github.com/users/\")">>>>,
     attachments_template |->
       <<>>,
     round2_brief_template |->
       <<"Show an aria-live alert #github-status that reports when a lookup starts, succeeds, or fails.">>,
     round2_checks_template |->
       <<<<"js: document.querySelector(\"#github-status\").getAttribute(\"aria-live\") === \"polite\"">>,
           <<"js: !!document.querySelector(\"script\").textContent.includes(\"github-status\")">>>>,
     round2_attachments_template |->
       <<>>]
  >>

\* A template registered through add_template: one round only, a JSON fixture
\* and an attachment that is a plain link
custom_template ==
    [template_id |-> "currency-converter",
     brief_template |->
       <<"Publish a page with form id=\"convert-", "{seed}", "\" that converts ", "{result}", " USD with the rates in rates.json and shows the amount inside #converted.">>,
     checks_template |->
       <<<<"Repo has MIT license">>,
           <<"js: document.querySelector(\"#convert-", "{seed}", "\").tagName === \"FORM\"">>,
           <<"js: document.querySelector(\"#amount\").value === \"", "{result}", "\"">>>>,
     attachments_template |->
       <<[name |-> "rates.json", url |-> <<"data:application/json;base64,", "{seed}">>],
           [name |-> "logo.png", url |-> <<"https://example.com/logo.png">>]>>,
     round2_brief_template |->
       <<>>,
     round2_checks_template |->
       <<>>,
     round2_attachments_template |->
       <<>>]

\* the spellings s.lower() maps to "sales"
SalesSpellings ==
    {a \o b \o c \o d \o e : a \in {"s", "S"}, b \in {"a", "A"}, c \in {"l", "L"},
                             d \in {"e", "E"}, e \in {"s", "S"}}

\* 'sales' in s.lower()
MentionsSales(s) == \E i \in 1..(Len(s) - 4) : SubSeq(s, i, i + 4) \in SalesSpellings

\* needle in segments, for a placeholder (a segment of its own)
HasPlaceholder(segments, placeholder) ==
    \E i \in 1..Len(segments) : segments[i] = placeholder

\* text.replace(placeholder, value)
Replace(segments, placeholder, value) ==
    [i \in 1..Len(segments) |-> IF segments[i] = placeholder THEN value ELSE segments[i]]

\* A buggy variant: the sales branch is missing, the value is always drawn
get_result_value_drawn(self, cache, seed, rng) ==
    IF "result" \notin DOMAIN cache
    THEN [value |-> rng.randint_1000_9999,
          cache |-> [k \in {"result"} |-> rng.randint_1000_9999]]
    ELSE [value |-> cache["result"], cache |-> cache]

\* _get_result_value: the value and the cache it leaves
get_result_value(self, cache, seed, rng) ==
    IF "result" \notin DOMAIN cache
    THEN LET total == IF MentionsSales(Join(self.brief_template))
                      THEN generate_random_data(seed, "csv_data", 10)[2]
                      ELSE rng.randint_1000_9999
         IN  [value |-> total, cache |-> [k \in {"result"} |-> total]]
    ELSE [value |-> cache["result"], cache |-> cache]

\* _process_template: the processed text and the cache it leaves
process_template(self, cache, template, seed, rng) ==
    LET processed == Replace(template, "{seed}", SubSeq(seed, 1, 8)) IN
    IF HasPlaceholder(processed, "{result}")
    THEN LET result == get_result_value(self, cache, seed, rng)
         IN  [text |-> Replace(processed, "{result}", str(result.value)),
              cache |-> result.cache]
    ELSE [text |-> processed, cache |-> cache]

RECURSIVE process_checks_loop(_, _, _, _, _, _)
process_checks_loop(self, cache, checks, seed, rng, processed_checks) ==
    IF checks = <<>> THEN [checks |-> processed_checks, cache |-> cache]
    ELSE LET one == process_template(self, cache, Head(checks), seed, rng)
         IN  process_checks_loop(self, one.cache, Tail(checks), seed, rng,
                                 Append(processed_checks, one.text))

\* _process_checks_template
process_checks_template(self, cache, checks, seed, rng) ==
    process_checks_loop(self, cache, checks, seed, rng, <<>>)

\* A variant that branches on the declared media type before the placeholder
process_attachment_url_by_type(url, seed) ==
    IF StartsWith(Join(url), "data:text/markdown;base64,{seed}")
    THEN <<"data:text/markdown;base64,",
           b64encode(generate_random_data(seed, "markdown", 10))>>
    ELSE IF StartsWith(Join(url), "data:application/json;base64,{seed}")
    THEN <<"data:application/json;base64,",
           b64encode(json_dumps(generate_random_data(seed, "json", 10)))>>
    ELSE IF HasPlaceholder(url, "{seed}")
    THEN <<"data:text/csv;base64,",
           b64encode(generate_random_data(seed, "csv_data", 10)[1])>>
    ELSE url

\* the if/elif chain of _process_attachments_template on one non-empty url
process_attachment_url(url, seed) ==
    IF HasPlaceholder(url, "{seed}") \/ StartsWith(Join(url), "data:text/csv;base64,{seed}")
    THEN <<"data:text/csv;base64,",
           b64encode(generate_random_data(seed, "csv_data", 10)[1])>>
    ELSE IF StartsWith(Join(url), "data:text/markdown;base64,{seed}")
    THEN <<"data:text/markdown;base64,",
           b64encode(generate_random_data(seed, "markdown", 10))>>
    ELSE IF StartsWith(Join(url), "data:application/json;base64,{seed}")
    THEN <<"data:application/json;base64,",
           b64encode(json_dumps(generate_random_data(seed, "json", 10)))>>
    ELSE url

\* _process_attachments_template
process_attachments_template(attachments, seed) ==
    [i \in 1..Len(attachments) |->
        IF attachments[i].url # <<>>
        THEN [attachments[i] EXCEPT !.url = process_attachment_url(@, seed)]
        ELSE attachments[i]]

\* str(uuid.uuid4()) (uuid7 where the interpreter has it): the n-th identifier
\* the source hands out, taken to differ from every earlier one
uuid(n) == "uuid-" \o ToString(n)

DefaultEvaluationUrl == "http://localhost" \o ":" \o "5001" \o "/api/evaluate"

\* A buggy variant: round 2 without a round-2 brief falls back to round 1
round_templates_fallback(self, round_num) ==
    IF round_num = 1 \/ (round_num = 2 /\ Join(self.round2_brief_template) = "")
    THEN [raise |-> None, brief |-> self.brief_template,
          checks |-> self.checks_template, attachments |-> self.attachments_template]
    ELSE IF round_num = 2
    THEN [raise |-> None, brief |-> self.round2_brief_template,
          checks |-> self.round2_checks_template,
          attachments |-> self.round2_attachments_template]
    ELSE [raise |-> "ValueError: Invalid round number"]

\* the round dispatch of TaskTemplate.generate_task: the three templates the
\* round is generated from, or the error raised
round_templates(self, round_num) ==
    IF round_num = 1
    THEN [raise |-> None, brief |-> self.brief_template,
          checks |-> self.checks_template, attachments |-> self.attachments_template]
    ELSE IF round_num = 2
    THEN IF Join(self.round2_brief_template) = ""
         THEN [raise |-> "ValueError: Round 2 not configured for template"]
         ELSE [raise |-> None, brief |-> self.round2_brief_template,
               checks |-> self.round2_checks_template,
               attachments |-> self.round2_attachments_template]
    ELSE [raise |-> "ValueError: Invalid round number"]

\* the nonce of TaskTemplate.generate_task, issued the identifiers handed out
task_nonce(self, seed, issued) == uuid(issued + 1)

\* TaskTemplate.generate_task: what it returns or raises, and the
\* _result_cache it leaves.  The cache is cleared first, whatever follows.
TaskTemplate_generate_task(self, seed, round_num, evaluation_url, issued) ==
    LET rng == Random(seed)
        round == round_templates(self, round_num)
    IN  IF round.raise # None
        THEN [raise |-> round.raise, cache |-> EmptyDict]
        ELSE
        LET brief == process_template(self, EmptyDict, round.brief, seed, rng)
            checks == process_checks_template(self, brief.cache, round.checks, seed, rng)
            attachments == process_attachments_template(round.attachments, seed)
            task_suffix == SubSeq(md5_hexdigest(self.template_id \o ":" \o seed), 1, 5)
            task_id == self.template_id \o "-" \o task_suffix
        IN  [raise |-> None,
             cache |-> checks.cache,
             task |-> [task_id |-> task_id,
                       round |-> round_num,
                       nonce |-> task_nonce(self, seed, issued),
                       brief |-> brief.text,
                       checks |-> checks.checks,
                       attachments |-> attachments,
                       evaluation_url |-> IF evaluation_url = None
                                          THEN DefaultEvaluationUrl
                                          ELSE evaluation_url]]

---------------------------------------------------------------------------
(* TaskGenerator *)

\* list(self.templates.keys()): templates is the dict in insertion order
list_templates(registry) == [i \in 1..Len(registry) |-> registry[i].template_id]

\* template_id in self.templates
has_template(registry, template_id) ==
    \E i \in 1..Len(registry) : registry[i].template_id = template_id

\* self.templates.get(template_id)
get_template(registry, template_id) ==
    IF has_template(registry, template_id)
    THEN registry[CHOOSE i \in 1..Len(registry) : registry[i].template_id = template_id]
    ELSE None

\* self.templates[template_id] = template: a known key keeps its place
add_template(registry, template) ==
    IF has_template(registry, template.template_id)
    THEN [i \in 1..Len(registry) |->
            IF registry[i].template_id = template.template_id THEN template
            ELSE registry[i]]
    ELSE Append(registry, template)

\* A buggy variant: the index drifts with the clock
select_template_drifting(registry, email) ==
    LET template_ids == list_templates(registry)
        template_index == (HexMod(md5_hexdigest(email), Len(template_ids), 0) + now)
                              % Len(template_ids)
    IN  template_ids[template_index + 1]

\* A buggy variant: the index is one too far, and past the end for the last
select_template_off_by_one(registry, email) ==
    LET template_ids == list_templates(registry)
        template_index == HexMod(md5_hexdigest(email), Len(template_ids), 0) + 1
    IN  IF template_index + 1 > Len(template_ids) THEN "IndexError"
        ELSE template_ids[template_index + 1]

\* the selection of generate_task when template_id is None
select_template(registry, email) ==
    LET template_ids == list_templates(registry)
        template_index == HexMod(md5_hexdigest(email), Len(template_ids), 0)
    IN  template_ids[template_index + 1]

\* TaskGenerator.generate_task: the seed, the template id used, what is
\* returned or raised, and the _result_cache the template is left with
TaskGenerator_generate_task(registry, email, template_id, round_num, evaluation_url, issued) ==
    LET date_string == strftime_hour(now)
        seed == generate_seed(email, date_string)
        selected == IF template_id = None THEN select_template(registry, email)
                    ELSE template_id
        template == get_template(registry, selected)
    IN  IF ~has_template(registry, selected)
        THEN [seed |-> seed, template_id |-> selected, touched |-> FALSE,
              out |-> [raise |-> "ValueError: Unknown template", cache |-> EmptyDict]]
        ELSE [seed |-> seed, template_id |-> selected, touched |-> TRUE,
              out |-> TaskTemplate_generate_task(template, seed, round_num,
                                                 evaluation_url, issued)]

---------------------------------------------------------------------------
(* The calls the model makes and the inputs it draws *)

Emails == {"carol@example.com", "dave@example.com"}
DateStrings == {"2024-01-15-09", "2024-01-15-10", "2024-01-15-11"}
Seeds == {generate_seed("carol@example.com", "2024-01-15-09"),
          generate_seed("dave@example.com", "2024-01-15-10")}
DataTypes == {"string", "number", "csv_data", "markdown", "json", "yaml"}
Lengths == {4, 10}
TemplateArgs == {None, "no-such-template"}
Rounds == {1, 2, 3}

NoCall == [op |-> "none"]
NoEvaluation == [op |-> "none"]

\* the clock advances
Tick ==
    /\ now < MaxNow
    /\ now' = now + 1
    /\ UNCHANGED <<templates, result_cache, uuid_issued, ref, last, evaluation, intake, limiter,
                   submissions, generations>>

\* the call just made becomes the latest one; the earlier latest call is
\* either remembered in ref or forgotten
Record(call) ==
    /\ last' = call
    /\ (ref' = ref \/ ref' = last)

CallGenerateSeed(email, date_string) ==
    /\ Record([op |-> "generate_seed", args |-> <<email, date_string>>, at |-> now,
               ret |-> generate_seed(email, date_string)])
    /\ UNCHANGED <<now, templates, result_cache, uuid_issued, evaluation, intake, limiter,
                   submissions, generations>>

CallGenerateRandomData(seed, data_type, length) ==
    /\ Record([op |-> "generate_random_data", args |-> <<seed, data_type, length>>,
               at |-> now, ret |-> generate_random_data(seed, data_type, length)])
    /\ UNCHANGED <<now, templates, result_cache, uuid_issued, evaluation, intake, limiter,
                   submissions, generations>>

\* TaskGenerator.add_template(template_id, template_data): a new TaskTemplate,
\* with an empty _result_cache, is stored under the id
AddTemplate(template) ==
    /\ templates' = add_template(templates, template)
    /\ result_cache' = [id \in DOMAIN result_cache \cup {template.template_id} |->
                          IF id = template.template_id THEN EmptyDict
                          ELSE result_cache[id]]
    /\ UNCHANGED <<now, uuid_issued, ref, last, evaluation, intake, limiter,
                   submissions, generations>>

\* template.generate_task(seed, round_num) on a registered template
CallTemplateGenerateTask(i, seed, round_num) ==
    \E out \in {TaskTemplate_generate_task(templates[i], seed, round_num, None, uuid_issued)} :
        /\ uuid_issued < MaxUuid
        /\ Record([op |-> "template.generate_task",
                   args |-> <<templates[i].template_id, seed, round_num>>,
                   at |-> now, template_ids |-> list_templates(templates),
                   seed |-> seed, template_id |-> templates[i].template_id,
                   raise |-> out.raise,
                   task |-> IF out.raise = None THEN out.task ELSE None])
        /\ result_cache' = [result_cache EXCEPT ![templates[i].template_id] = out.cache]
        /\ uuid_issued' = IF out.raise = None THEN uuid_issued + 1 ELSE uuid_issued
        /\ UNCHANGED <<now, templates, evaluation, intake, limiter,
                   submissions, generations>>

\* TaskGenerator.generate_task(email, template_id, round_num)
GenerateTask(email, template_id, round_num) ==
    \E call \in {TaskGenerator_generate_task(templates, email, template_id, round_num,
                                             None, uuid_issued)} :
        /\ uuid_issued < MaxUuid
        /\ Record([op |-> "generate_task", args |-> <<email, template_id, round_num>>,
                   at |-> now, template_ids |-> list_templates(templates),
                   seed |-> call.seed, template_id |-> call.template_id,
                   raise |-> call.out.raise,
                   task |-> IF call.out.raise = None THEN call.out.task ELSE None])
        /\ result_cache' = IF call.touched
                           THEN [result_cache EXCEPT ![call.template_id] = call.out.cache]
                           ELSE result_cache
        /\ uuid_issued' = IF call.out.raise = None THEN uuid_issued + 1 ELSE uuid_issued
        /\ UNCHANGED <<now, templates, evaluation, intake, limiter,
                   submissions, generations>>

\* TaskStatus
TaskStatus ==
    [PENDING |-> "pending", SENT |-> "sent", RECEIVED |-> "received",
     EVALUATING |-> "evaluating", COMPLETED |-> "completed", FAILED |-> "failed"]

\* The tasks table as TaskRequest.post leaves it: one task created and marked
\* sent, one created and not yet marked sent
initial_tasks ==
    ("sum-of-sales-4e55e" :>
        [id |-> 1, nonce |-> "0192f3a1-7c1e-7000-8000-00000000000a",
         status |-> TaskStatus.SENT])
    @@ ("markdown-to-html-c834c" :>
        [id |-> 2, nonce |-> "0192f3a1-7c1e-7000-8000-00000000000b",
         status |-> TaskStatus.PENDING])

NoRequest == [pc |-> "none"]

\* EvaluationAPI.__init__ and the empty tables: nothing submitted, the queue
\* empty, the worker started and about to poll
InitIntake ==
    /\ tasks = initial_tasks
    /\ repositories = <<>>
    /\ evaluations = <<>>
    /\ evaluation_queue = <<>>
    /\ requests = [i \in 1..MaxRequests |-> NoRequest]
    /\ worker = [pc |-> "get"]
    /\ enqueued = <<>>
    /\ handled = <<>>

\* APIServer.__init__: self.rate_limits = {}, and cleanup_rate_limits() starts
\* the sweeper, which sleeps until ~due~ (seconds on the limiter's clock)
InitLimiterDue(due) ==
    /\ clock = 0
    /\ rate_limits = << >>
    /\ entries = << >>
    /\ checked = << >>
    /\ callers = [t \in 1..MaxCallers |-> [pc |-> "idle"]]
    /\ sweeper = [pc |-> "sleep", due |-> due]

InitLimiter == InitLimiterDue(SweepInterval)

\* The submissions table with one student registered, and no thread inside
\* a template
InitFrontend ==
    /\ submissions = ("carol@example.com" :> [id |-> 1, secret |-> "carol-secret-1"])
    /\ generations = [t \in 1..2 |-> [pc |-> "idle"]]

InitGenerator ==
    /\ now = 0
    /\ templates = default_templates
    /\ result_cache = [id \in {default_templates[i].template_id :
                                 i \in 1..Len(default_templates)} |-> EmptyDict]
    /\ uuid_issued = 0
    /\ ref = NoCall
    /\ last = NoCall

Init ==
    /\ InitGenerator
    /\ evaluation = NoEvaluation
    /\ InitIntake
    /\ InitLimiter
    /\ InitFrontend

\* The task generator: requests for tasks, registrations, the clock
Next ==
    \/ Tick
    \/ AddTemplate(custom_template)
    \/ \E email \in Emails, template_id \in TemplateArgs, round_num \in Rounds :
          GenerateTask(email, template_id, round_num)

Spec == Init /\ [][Next]_vars

\* The templates called on their own: the built-in ones and one that
\* defines no second round
InitTemplate ==
    /\ now = 0
    /\ templates = Append(default_templates, custom_template)
    /\ result_cache = [id \in {default_templates[i].template_id :
                                 i \in 1..Len(default_templates)}
                               \cup {custom_template.template_id} |-> EmptyDict]
    /\ uuid_issued = 0
    /\ ref = NoCall
    /\ last = NoCall
    /\ evaluation = NoEvaluation
    /\ InitIntake
    /\ InitLimiter
    /\ InitFrontend

NextTemplate ==
    \/ Tick
    \/ \E i \in 1..Len(templates), seed \in Seeds, round_num \in Rounds :
          CallTemplateGenerateTask(i, seed, round_num)

SpecTemplate == InitTemplate /\ [][NextTemplate]_vars

\* The seed generator called on its own
NextSeed ==
    \/ Tick
    \/ \E email \in Emails, date_string \in DateStrings :
          CallGenerateSeed(email, date_string)
    \/ \E seed \in Seeds, data_type \in DataTypes, length \in Lengths :
          CallGenerateRandomData(seed, data_type, length)

SpecSeed == Init /\ [][NextSeed]_vars

---------------------------------------------------------------------------
(* RepositoryEvaluator (coreapp/evaluate.py)                               *)
(*                                                                         *)
(* What the world outside answers during one evaluation is the record env: *)
(*   validation  what github_manager.validate_repository does              *)
(*   fetch       what requests.get(pages_url) does                         *)
(*   browser     what the Playwright browser and the page do               *)
(*   repo        what the repository host answers to the code checks       *)
(*   readme      what it answers to the README check                       *)
(* A score is a fraction <<numerator, denominator>>.                       *)

PASSED == "passed"
FAILED == "failed"
ERROR == "error"

CheckResult(check_name, status, score) ==
    [check_name |-> check_name, status |-> status, score |-> score]

\* a result whose logs carry a list of errors
CheckResultWithErrors(check_name, status, score, errors) ==
    [check_name |-> check_name, status |-> status, score |-> score,
     logs |-> [errors |-> errors]]

\* errors[:5]
FirstFive(errors) == SubSeq(errors, 1, IF Len(errors) < 5 THEN Len(errors) ELSE 5)

\* A buggy variant: the license check reads the README flag
validate_repository_one_flag(self, env) ==
    IF ~self.github_manager
    THEN <<CheckResult("github_integration", ERROR, <<0, 1>>)>>
    ELSE IF env.validation.raises
    THEN <<CheckResult("repository_validation", ERROR, <<0, 1>>)>>
    ELSE IF ~env.validation.valid
    THEN <<CheckResult("repository_exists", FAILED, <<0, 1>>)>>
    ELSE <<CheckResult("repository_exists", PASSED, <<1, 1>>),
           IF env.validation.has_readme
           THEN CheckResult("license_check", PASSED, <<1, 1>>)
           ELSE CheckResult("license_check", FAILED, <<0, 1>>),
           IF env.validation.has_readme
           THEN CheckResult("readme_exists", PASSED, <<1, 1>>)
           ELSE CheckResult("readme_exists", FAILED, <<0, 1>>)>>

\* _validate_repository: the results of stage 1
validate_repository(self, env) ==
    IF ~self.github_manager
    THEN <<CheckResult("github_integration", ERROR, <<0, 1>>)>>
    ELSE IF env.validation.raises
    THEN <<CheckResult("repository_validation", ERROR, <<0, 1>>)>>
    ELSE IF ~env.validation.valid
    THEN <<CheckResult("repository_exists", FAILED, <<0, 1>>)>>
    ELSE <<CheckResult("repository_exists", PASSED, <<1, 1>>),
           IF env.validation.has_license
           THEN CheckResult("license_check", PASSED, <<1, 1>>)
           ELSE CheckResult("license_check", FAILED, <<0, 1>>),
           IF env.validation.has_readme
           THEN CheckResult("readme_exists", PASSED, <<1, 1>>)
           ELSE CheckResult("readme_exists", FAILED, <<0, 1>>)>>

\* _check_pages_availability: the result of stage 2, or the exception that
\* leaves it (only requests.RequestException is caught)
check_pages_availability(env) ==
    IF env.fetch.raises = "RequestException"
    THEN [raises |-> None,
          result |-> <<CheckResult("pages_availability", FAILED, <<0, 1>>)>>]
    ELSE IF env.fetch.raises # None
    THEN [raises |-> env.fetch.raises, result |-> <<>>]
    ELSE IF env.fetch.status_code = 200
    THEN [raises |-> None,
          result |-> <<CheckResult("pages_availability", PASSED, <<1, 1>>)>>]
    ELSE [raises |-> None,
          result |-> <<CheckResult("pages_availability", FAILED, <<0, 1>>)>>]

\* the checks of _run_basic_dynamic_checks on a page that has loaded, up to
\* the first call that raises: the results appended and whether one raised
page_checks(browser) ==
    LET \* the pageerror handler is registered after goto has returned: it
        \* hears the errors thrown during the wait, numbered in the order thrown
        js_errors == [i \in 1..browser.page_errors_settling |->
                        browser.page_errors_loading + i]
        \* the console handler is registered after the wait, and the list is
        \* read at once
        console_errors == <<>>
        javascript == IF js_errors # <<>>
                      THEN <<CheckResultWithErrors("javascript_errors", FAILED, <<0, 1>>,
                                                   FirstFive(js_errors))>>
                      ELSE <<CheckResult("javascript_errors", PASSED, <<1, 1>>)>>
        console == IF console_errors # <<>>
                   THEN <<CheckResultWithErrors("console_errors", FAILED, <<1, 2>>,
                                                FirstFive(console_errors))>>
                   ELSE <<>>
        title == IF browser.title # ""
                 THEN <<CheckResult("page_title", PASSED, <<1, 1>>)>>
                 ELSE <<CheckResult("page_title", FAILED, <<0, 1>>)>>
        content == IF browser.body_text # ""
                   THEN <<CheckResult("page_content", PASSED, <<1, 1>>)>>
                   ELSE <<CheckResult("page_content", FAILED, <<0, 1>>)>>
    IN  IF browser.title_raises
        THEN [raised |-> TRUE, results |-> javascript \o console]
        ELSE [raised |-> FALSE, results |-> javascript \o console \o title \o content]

\* A buggy variant: the navigation timeout is not caught
run_basic_dynamic_checks_propagating(env) ==
    LET browser == env.browser IN
    IF browser.launch_raises
    THEN [raises |-> "Exception", results |-> <<>>, launched |-> FALSE, closed |-> FALSE]
    ELSE IF browser.new_page_raises
    THEN [raises |-> "Exception", results |-> <<>>, launched |-> TRUE, closed |-> FALSE]
    ELSE IF browser.goto = "timeout"
    THEN [raises |-> "Exception", results |-> <<>>, launched |-> TRUE,
          closed |-> ~browser.close_raises]
    ELSE
    LET results ==
            IF browser.goto = "raises"
            THEN <<CheckResult("dynamic_checks", ERROR, <<0, 1>>)>>
            ELSE IF page_checks(browser).raised
            THEN page_checks(browser).results
                     \o <<CheckResult("dynamic_checks", ERROR, <<0, 1>>)>>
            ELSE page_checks(browser).results
    IN  IF browser.close_raises
        THEN [raises |-> "Exception", results |-> <<>>, launched |-> TRUE, closed |-> FALSE]
        ELSE [raises |-> None, results |-> results, launched |-> TRUE, closed |-> TRUE]

\* _run_basic_dynamic_checks: its results or the exception that leaves it,
\* and whether browser.close() was reached
run_basic_dynamic_checks(env) ==
    LET browser == env.browser IN
    IF browser.launch_raises
    THEN [raises |-> "Exception", results |-> <<>>, launched |-> FALSE, closed |-> FALSE]
    ELSE IF browser.new_page_raises
    THEN [raises |-> "Exception", results |-> <<>>, launched |-> TRUE, closed |-> FALSE]
    ELSE
    LET results ==
            IF browser.goto = "timeout"
            THEN <<CheckResult("page_load", FAILED, <<0, 1>>)>>
            ELSE IF browser.goto = "raises"
            THEN <<CheckResult("dynamic_checks", ERROR, <<0, 1>>)>>
            ELSE IF page_checks(browser).raised
            THEN page_checks(browser).results
                     \o <<CheckResult("dynamic_checks", ERROR, <<0, 1>>)>>
            ELSE page_checks(browser).results
    IN  IF browser.close_raises
        THEN [raises |-> "Exception", results |-> <<>>, launched |-> TRUE, closed |-> FALSE]
        ELSE [raises |-> None, results |-> results, launched |-> TRUE, closed |-> TRUE]

\* _run_dynamic_checks: the results of stage 3
run_dynamic_checks(env) ==
    LET basic_checks == run_basic_dynamic_checks(env) IN
    IF basic_checks.raises # None
    THEN <<CheckResult("dynamic_checks", ERROR, <<0, 1>>)>>
    ELSE basic_checks.results

\* A buggy variant: one language scores as several do
check_code_quality_flat(self, env) ==
    LET repo == env.repo
        commits == IF repo.commit_count > 0
                   THEN <<CheckResult("has_commits", PASSED, <<1, 1>>)>>
                   ELSE <<CheckResult("has_commits", FAILED, <<0, 1>>)>>
        size == IF repo.size > 0
                THEN <<CheckResult("repository_size", PASSED, <<1, 1>>)>>
                ELSE <<>>
        languages == IF repo.languages >= 1
                     THEN <<CheckResult("language_diversity", PASSED, <<4, 5>>)>>
                     ELSE <<>>
    IN  IF ~self.github_manager THEN <<>>
        ELSE IF repo.raises = "get_repository"
        THEN <<CheckResult("code_quality", ERROR, <<0, 1>>)>>
        ELSE IF ~repo.found THEN <<>>
        ELSE IF repo.raises = "get_commit_count"
        THEN <<CheckResult("code_quality", ERROR, <<0, 1>>)>>
        ELSE IF repo.raises = "get_repo_languages"
        THEN commits \o size \o <<CheckResult("code_quality", ERROR, <<0, 1>>)>>
        ELSE commits \o size \o languages

\* _check_code_quality: the results of stage 4
check_code_quality(self, env) ==
    LET repo == env.repo
        commits == IF repo.commit_count > 0
                   THEN <<CheckResult("has_commits", PASSED, <<1, 1>>)>>
                   ELSE <<CheckResult("has_commits", FAILED, <<0, 1>>)>>
        size == IF repo.size > 0
                THEN <<CheckResult("repository_size", PASSED, <<1, 1>>)>>
                ELSE <<>>
        languages == IF repo.languages > 1
                     THEN <<CheckResult("language_diversity", PASSED, <<4, 5>>)>>
                     ELSE IF repo.languages = 1
                     THEN <<CheckResult("language_diversity", PASSED, <<3, 5>>)>>
                     ELSE <<>>
    IN  IF ~self.github_manager THEN <<>>
        ELSE IF repo.raises = "get_repository"
        THEN <<CheckResult("code_quality", ERROR, <<0, 1>>)>>
        ELSE IF ~repo.found THEN <<>>
        ELSE IF repo.raises = "get_commit_count"
        THEN <<CheckResult("code_quality", ERROR, <<0, 1>>)>>
        ELSE IF repo.raises = "get_repo_languages"
        THEN commits \o size \o <<CheckResult("code_quality", ERROR, <<0, 1>>)>>
        ELSE commits \o size \o languages

\* A buggy variant: a score of exactly one half fails
check_readme_quality_strict(self, env) ==
    LET passed_checks == env.readme.heuristics
        total_checks == 6
        status == IF passed_checks * 2 > total_checks THEN PASSED ELSE FAILED
    IN  IF ~self.github_manager THEN CheckResult("readme_quality", ERROR, <<0, 1>>)
        ELSE IF env.readme.raises THEN CheckResult("readme_quality", ERROR, <<0, 1>>)
        ELSE IF ~env.repo.found THEN CheckResult("readme_quality", FAILED, <<0, 1>>)
        ELSE IF ~env.readme.found THEN CheckResult("readme_quality", FAILED, <<0, 1>>)
        ELSE CheckResult("readme_quality", status, <<passed_checks, total_checks>>)

\* _check_readme_quality: the result of stage 5
check_readme_quality(self, env) ==
    LET passed_checks == env.readme.heuristics
        total_checks == 6
        \* score >= 0.8, score >= 0.5
        status == IF passed_checks * 5 >= total_checks * 4 THEN PASSED
                  ELSE IF passed_checks * 2 >= total_checks THEN PASSED
                  ELSE FAILED
    IN  IF ~self.github_manager THEN CheckResult("readme_quality", ERROR, <<0, 1>>)
        ELSE IF env.readme.raises THEN CheckResult("readme_quality", ERROR, <<0, 1>>)
        ELSE IF ~env.repo.found THEN CheckResult("readme_quality", FAILED, <<0, 1>>)
        ELSE IF ~env.readme.found THEN CheckResult("readme_quality", FAILED, <<0, 1>>)
        ELSE CheckResult("readme_quality", status, <<passed_checks, total_checks>>)

\* RepositoryEvaluator.evaluate_repository: the list it returns, the stages
\* that were entered and what each stage handed back (emitted)
evaluate_repository(self, env) ==
    LET repo_validation == validate_repository(self, env)
        pages_check == check_pages_availability(env)
        dynamic_checks == run_dynamic_checks(env)
        code_checks == check_code_quality(self, env)
        readme_check == check_readme_quality(self, env)
    IN  IF env.pages_url # None /\ pages_check.raises # None
        THEN [stages |-> <<1, 2>>,
              emitted |-> <<repo_validation, <<>>, <<>>, <<>>, <<>>>>,
              results |-> <<CheckResult("evaluation_error", ERROR, <<0, 1>>)>>]
        ELSE [stages |-> <<1>> \o (IF env.pages_url # None THEN <<2, 3>> ELSE <<>>)
                             \o (IF self.github_manager THEN <<4>> ELSE <<>>) \o <<5>>,
              emitted |-> <<repo_validation,
                            IF env.pages_url # None THEN pages_check.result ELSE <<>>,
                            IF env.pages_url # None THEN dynamic_checks ELSE <<>>,
                            IF self.github_manager THEN code_checks ELSE <<>>,
                            <<readme_check>>>>,
              results |-> repo_validation
                          \o (IF env.pages_url # None THEN pages_check.result ELSE <<>>)
                          \o (IF env.pages_url # None THEN dynamic_checks ELSE <<>>)
                          \o (IF self.github_manager THEN code_checks ELSE <<>>)
                          \o <<readme_check>>]

---------------------------------------------------------------------------
(* The evaluations the model runs *)

Validations ==
    {[raises |-> TRUE, valid |-> FALSE, has_license |-> FALSE, has_readme |-> FALSE],
     [raises |-> FALSE, valid |-> FALSE, has_license |-> FALSE, has_readme |-> FALSE]}
    \cup [raises : {FALSE}, valid : {TRUE}, has_license : BOOLEAN, has_readme : BOOLEAN]

Fetches ==
    {[raises |-> None, status_code |-> 200],
     [raises |-> None, status_code |-> 404],
     [raises |-> "RequestException", status_code |-> 0],
     [raises |-> "Exception", status_code |-> 0]}

PageLoaded ==
    [launch_raises |-> FALSE, new_page_raises |-> FALSE, goto |-> "ok",
     page_errors_loading |-> 0, page_errors_settling |-> 0, console_errors |-> 0,
     title |-> "Sales Summary", title_raises |-> FALSE, body_text |-> "Total",
     close_raises |-> FALSE]

Browsers ==
    {PageLoaded,
     [PageLoaded EXCEPT !.launch_raises = TRUE],
     [PageLoaded EXCEPT !.new_page_raises = TRUE],
     [PageLoaded EXCEPT !.goto = "timeout"],
     [PageLoaded EXCEPT !.goto = "raises"],
     [PageLoaded EXCEPT !.page_errors_loading = 1],
     [PageLoaded EXCEPT !.page_errors_settling = 1],
     [PageLoaded EXCEPT !.page_errors_settling = 6],
     [PageLoaded EXCEPT !.console_errors = 1],
     [PageLoaded EXCEPT !.title = ""],
     [PageLoaded EXCEPT !.title_raises = TRUE],
     [PageLoaded EXCEPT !.body_text = ""],
     [PageLoaded EXCEPT !.close_raises = TRUE]}

Repos ==
    {[found |-> FALSE, raises |-> None, commit_count |-> 0, size |-> 0, languages |-> 0],
     [found |-> FALSE, raises |-> "get_repository", commit_count |-> 0, size |-> 0,
      languages |-> 0],
     [found |-> TRUE, raises |-> "get_commit_count", commit_count |-> 0, size |-> 0,
      languages |-> 0],
     [found |-> TRUE, raises |-> "get_repo_languages", commit_count |-> 3, size |-> 2048,
      languages |-> 0]}
    \cup [found : {TRUE}, raises : {None}, commit_count : {0, 3}, size : {0, 2048},
          languages : {0, 1, 2}]

Readmes ==
    {[found |-> FALSE, raises |-> FALSE, heuristics |-> 0],
     [found |-> TRUE, raises |-> TRUE, heuristics |-> 0]}
    \cup [found : {TRUE}, raises : {FALSE}, heuristics : 0..6]

PagesUrls == {None, "https://student.github.io/app/"}

Environments ==
    [pages_url : PagesUrls, validation : Validations, fetch : Fetches,
     browser : Browsers, repo : Repos, readme : Readmes]

\* RepositoryEvaluator(): github_manager is set when the integration is
\* enabled and the manager can be built
NewEvaluator(github_manager) ==
    /\ evaluation.op = "none"
    /\ evaluation' = [op |-> "evaluator", self |-> [github_manager |-> github_manager]]
    /\ UNCHANGED <<now, templates, result_cache, uuid_issued, ref, last, intake, limiter,
                   submissions, generations>>

\* evaluator.evaluate_repository(repo_url, commit_sha, pages_url)
EvaluateRepository ==
    /\ evaluation.op = "evaluator"
    /\ \E env \in Environments :
          evaluation' = [op |-> "evaluated", self |-> evaluation.self, env |-> env,
                         ret |-> evaluate_repository(evaluation.self, env)]
    /\ UNCHANGED <<now, templates, result_cache, uuid_issued, ref, last, intake, limiter,
                   submissions, generations>>

\* the results have been handed back and the evaluator is dropped
ReturnResults ==
    /\ evaluation.op = "evaluated"
    /\ evaluation' = NoEvaluation
    /\ UNCHANGED <<now, templates, result_cache, uuid_issued, ref, last, intake, limiter,
                   submissions, generations>>

\* evaluate_repository(repo_url, commit_sha, pages_url): a new evaluator
\* evaluates one repository
NextEval ==
    \/ \E github_manager \in BOOLEAN : NewEvaluator(github_manager)
    \/ EvaluateRepository
    \/ ReturnResults

SpecEval == Init /\ [][NextEval]_vars

---------------------------------------------------------------------------
(* Reading a fixture back: base64 decoding and the CSV reader *)

Base64Index == [c \in {Base64Chars[i] : i \in 1..64} |->
                  (CHOOSE i \in 1..64 : Base64Chars[i] = c) - 1]

\* chr(n) for the ASCII characters Ordinals covers
Characters == [n \in {Ordinals[c] : c \in DOMAIN Ordinals} |->
                 CHOOSE c \in DOMAIN Ordinals : Ordinals[c] = n]

\* one group of four characters: up to three bytes
b64decode_group(g) ==
    LET v(i) == Base64Index[SubSeq(g, i, i)]
        pad == IF SubSeq(g, 3, 4) = "==" THEN 2 ELSE IF SubSeq(g, 4, 4) = "=" THEN 1 ELSE 0
        b1 == v(1) * 4 + v(2) \div 16
        b2 == (v(2) % 16) * 16 + v(3) \div 4
        b3 == (v(3) % 4) * 64 + v(4)
    IN  IF pad = 2 THEN Characters[b1]
        ELSE IF pad = 1 THEN Characters[b1] \o Characters[b2]
        ELSE Characters[b1] \o Characters[b2] \o Characters[b3]

RECURSIVE b64decode(_)
\* base64.b64decode(s).decode(), s a whole number of groups
b64decode(s) ==
    IF Len(s) = 0 THEN ""
    ELSE IF Len(s) = 4 THEN b64decode_group(s)
    ELSE LET half == 4 * ((Len(s) \div 4 + 1) \div 2)
         IN  b64decode(SubSeq(s, 1, half)) \o b64decode(SubSeq(s, half + 1, Len(s)))

RECURSIVE Split(_, _)
\* s.split(sep), sep one character
Split(s, sep) ==
    IF \A i \in 1..Len(s) : SubSeq(s, i, i) # sep THEN <<s>>
    ELSE LET first == CHOOSE i \in 1..Len(s) :
                         /\ SubSeq(s, i, i) = sep
                         /\ \A j \in 1..(i - 1) : SubSeq(s, j, j) # sep
         IN  <<SubSeq(s, 1, first - 1)>> \o Split(SubSeq(s, first + 1, Len(s)), sep)

RECURSIVE ParseInt(_, _)
\* int(digits), acc the value of the digits read
ParseInt(digits, acc) ==
    IF digits = "" THEN acc
    ELSE ParseInt(SubSeq(digits, 2, Len(digits)),
                  acc * 10 + HexValue(SubSeq(digits, 1, 1)))

RECURSIVE SumSeq(_)
SumSeq(numbers) == IF numbers = <<>> THEN 0 ELSE Head(numbers) + SumSeq(Tail(numbers))

\* the sum of the column named column of a CSV text with a header line
ColumnTotal(csv_text, column) ==
    LET lines == SelectSeq(Split(csv_text, "\n"), LAMBDA line : line # "")
        header == Split(lines[1], ",")
        at == CHOOSE i \in 1..Len(header) : header[i] = column
    IN  SumSeq([r \in 1..(Len(lines) - 1) |-> ParseInt(Split(lines[r + 1], ",")[at], 0)])

\* the payload of an inline data URI of the given media type
IsDataUri(url, media_type) == StartsWith(url, "data:" \o media_type \o ";base64,")
Payload(url, media_type) ==
    SubSeq(url, Len("data:" \o media_type \o ";base64,") + 1, Len(url))

---------------------------------------------------------------------------
(* C1 *)

SameSeedCall ==
    /\ ref.op = "generate_seed"
    /\ last.op = "generate_seed"
    /\ ref.args = last.args

\* C1: two generate_seed calls with the same (identity, bucket) return the
\* same 16-character seed, whatever calls and clock changes lie between them
C1_SeedDeterministic ==
    SameSeedCall => (ref.ret = last.ret /\ Len(last.ret) = 16)

\* two such calls with the clock in a different hour at the second
C1_Witness ==
    /\ SameSeedCall
    /\ HourOf(ref.at) < HourOf(last.at)

---------------------------------------------------------------------------
(* C2 *)

SameRequest ==
    /\ ref.op = "generate_task"
    /\ last.op = "generate_task"
    /\ ref.args = last.args
    /\ last.args[2] = None

SameInstance(a, b) ==
    /\ a.template_id = b.template_id
    /\ a.raise = b.raise
    /\ a.raise = None =>
          /\ a.task.task_id = b.task.task_id
          /\ a.task.brief = b.task.brief
          /\ a.task.checks = b.task.checks

AfterRollover ==
    /\ ref.op = "generate_task"
    /\ last.op = "generate_task"
    /\ ref.args[1] = last.args[1]
    /\ HourOf(ref.at) # HourOf(last.at)

\* C2 as stated: two generate_task calls for one identity with no template
\* id and the same round, made in the same UTC hour, select the same template
\* and return the same task_id, brief and checks; after the hour has rolled
\* over the seed is a different one
C2_Original ==
    /\ (SameRequest /\ HourOf(ref.at) = HourOf(last.at)) => SameInstance(ref, last)
    /\ AfterRollover => ref.seed # last.seed

\* C2, amended: the same, for two calls that find the same templates registered
C2_SameHourSameTask ==
    /\ (SameRequest /\ HourOf(ref.at) = HourOf(last.at)
           /\ ref.template_ids = last.template_ids) => SameInstance(ref, last)
    /\ AfterRollover => ref.seed # last.seed

\* two successful such calls at different times of one hour
C2_Witness ==
    /\ SameRequest
    /\ HourOf(ref.at) = HourOf(last.at)
    /\ ref.at < last.at
    /\ ref.template_ids = last.template_ids
    /\ last.raise = None

---------------------------------------------------------------------------
(* C3 *)

SameInstantiation ==
    /\ ref.op = "template.generate_task"
    /\ last.op = "template.generate_task"
    /\ ref.args = last.args
    /\ ref.raise = None
    /\ last.raise = None

\* C3: two TaskTemplate.generate_task calls on one template with the same
\* (seed, round) return the same brief, the same checks in the same order and
\* the same attachments (and task_id, round, evaluation_url); the nonce is
\* drawn anew for each
C3_SameSeedSameContent ==
    SameInstantiation =>
        /\ ref.task.brief = last.task.brief
        /\ ref.task.checks = last.task.checks
        /\ ref.task.attachments = last.task.attachments
        /\ ref.task.task_id = last.task.task_id
        /\ ref.task.round = last.task.round
        /\ ref.task.evaluation_url = last.task.evaluation_url
        /\ ref.task.nonce # last.task.nonce

\* two such calls, at different times, of a template with an attachment
C3_Witness ==
    /\ SameInstantiation
    /\ ref.at < last.at
    /\ last.task.attachments # <<>>

---------------------------------------------------------------------------
(* C5 *)

\* the texts that stand where the round's templates have {result}
ResultValues(call) ==
    LET round == round_templates(get_template(templates, call.template_id), call.args[3])
    IN  {call.task.brief[i] : i \in {j \in 1..Len(round.brief) : round.brief[j] = "{result}"}}
        \cup UNION {{call.task.checks[k][i] :
                        i \in {j \in 1..Len(round.checks[k]) : round.checks[k][j] = "{result}"}} :
                    k \in 1..Len(round.checks)}

\* the attachments of the instance that are inline CSV
CsvAttachments(call) ==
    {Join(call.task.attachments[i].url) :
        i \in {j \in 1..Len(call.task.attachments) :
                 IsDataUri(Join(call.task.attachments[j].url), "text/csv")}}

\* C5: in an instance of a template whose brief is about sales, one value
\* stands for {result} in the brief and in every check, and it is the sum of
\* the Sales column of the CSV the instance carries as an attachment
C5_ResultIsSalesTotal ==
    (last.op = "template.generate_task" /\ last.raise = None) =>
        /\ Cardinality(ResultValues(last)) <= 1
        /\ MentionsSales(Join(get_template(templates, last.template_id).brief_template)) =>
              \A value \in ResultValues(last), url \in CsvAttachments(last) :
                  value = str(ColumnTotal(b64decode(Payload(url, "text/csv")), "Sales"))

\* an instance of the sales template with {result} filled in and its CSV attached
C5_Witness ==
    /\ last.op = "template.generate_task"
    /\ last.raise = None
    /\ last.template_id = "sum-of-sales"
    /\ ResultValues(last) # {}
    /\ CsvAttachments(last) # {}

---------------------------------------------------------------------------
(* C6 *)

\* C6 as stated: two generate_random_data calls with the same (seed, kind,
\* length) return the same output, whenever they are made
C6_Original ==
    (/\ ref.op = "generate_random_data"
     /\ last.op = "generate_random_data"
     /\ ref.args = last.args) => ref.ret = last.ret

---------------------------------------------------------------------------
(* C7 *)

\* the fixture a descriptor's URL declares
DeclaredFixture(url) ==
    IF StartsWith(Join(url), "data:text/csv") THEN "csv_data"
    ELSE IF StartsWith(Join(url), "data:text/markdown") THEN "markdown"
    ELSE IF StartsWith(Join(url), "data:application/json") THEN "json"
    ELSE None

\* the instantiated URL carries the fixture its descriptor declares
MatchesDeclared(descriptor, attachment, seed, at) ==
    LET url == Join(attachment.url)
        declared == DeclaredFixture(descriptor.url)
    IN  /\ declared = "csv_data" =>
              /\ IsDataUri(url, "text/csv")
              /\ b64decode(Payload(url, "text/csv")) =
                    csv_rows(Random(seed), Random(seed).randint_2_4, 1,
                             "Product,Sales,Region\n", 0)[1]
        /\ declared = "markdown" =>
              /\ IsDataUri(url, "text/markdown")
              /\ b64decode(Payload(url, "text/markdown")) =
                    markdown_content(seed, isoformat(at))
        /\ declared = "json" =>
              /\ IsDataUri(url, "application/json")
              /\ b64decode(Payload(url, "application/json")) =
                    json_dumps(json_content(seed, isoformat(at)))

\* C7 as stated: every attachment whose descriptor carries the placeholder
\* is instantiated as an inline data URI of the declared media type whose
\* payload is the fixture of that type
C7_Original ==
    (last.op = "template.generate_task" /\ last.raise = None) =>
        LET descriptors == round_templates(get_template(templates, last.template_id),
                                           last.args[3]).attachments
        IN  \A i \in 1..Len(descriptors) :
                HasPlaceholder(descriptors[i].url, "{seed}") =>
                    MatchesDeclared(descriptors[i], last.task.attachments[i],
                                    last.seed, last.at)

---------------------------------------------------------------------------
(* C8 *)

HasRound2(self) == Join(self.round2_brief_template) # ""

\* C8: TaskTemplate.generate_task returns an instance exactly when round is
\* 1, or round is 2 and the template defines a second round; round 2 on a
\* template without one raises and returns nothing, and so does any other
\* round number
C8_RoundValidated ==
    last.op = "template.generate_task" =>
        LET self == get_template(templates, last.template_id)
            round_num == last.args[3]
        IN  /\ (last.raise = None) <=>
                   (round_num = 1 \/ (round_num = 2 /\ HasRound2(self)))
            /\ last.raise = None => last.task.round = round_num
            /\ (last.raise = None /\ round_num = 2) =>
                   last.task.brief = Replace(self.round2_brief_template, "{seed}",
                                             SubSeq(last.seed, 1, 8))
                   \/ HasPlaceholder(self.round2_brief_template, "{result}")

\* round 2 was asked of a template without a second round, and it raised
C8_Witness ==
    /\ last.op = "template.generate_task"
    /\ last.args[3] = 2
    /\ ~HasRound2(get_template(templates, last.template_id))
    /\ last.raise # None

---------------------------------------------------------------------------
(* C9 *)

\* C9: on the registry of built-in templates, generate_task with no template
\* id selects a registered template (the list is non-empty and has
\* 'sum-of-sales') and, for round 1 or 2, returns an instance with task_id,
\* brief, checks and attachments
C9_DefaultSelectionSucceeds ==
    (/\ last.op = "generate_task"
     /\ last.args[2] = None
     /\ last.template_ids = list_templates(default_templates)) =>
        /\ Len(last.template_ids) > 0
        /\ \E i \in 1..Len(last.template_ids) : last.template_ids[i] = "sum-of-sales"
        /\ \E i \in 1..Len(last.template_ids) : last.template_ids[i] = last.template_id
        /\ last.args[3] \in {1, 2} =>
              /\ last.raise = None
              /\ {"task_id", "brief", "checks", "attachments"} \subseteq DOMAIN last.task
              /\ last.task.task_id # ""
              /\ last.task.brief # <<>>
              /\ last.task.checks # <<>>

\* such a call for the identity whose hash selects the last template of the list
C9_Witness ==
    /\ last.op = "generate_task"
    /\ last.args[2] = None
    /\ last.template_ids = list_templates(default_templates)
    /\ last.template_id = last.template_ids[Len(last.template_ids)]
    /\ last.raise = None

---------------------------------------------------------------------------
(* C10 *)

\* the stage a check belongs to (0: the evaluation as a whole)
StageOf(check_name) ==
    IF check_name \in {"github_integration", "repository_validation", "repository_exists",
                       "license_check", "readme_exists"} THEN 1
    ELSE IF check_name = "pages_availability" THEN 2
    ELSE IF check_name \in {"javascript_errors", "console_errors", "page_title",
                            "page_content", "page_load", "dynamic_checks"} THEN 3
    ELSE IF check_name \in {"has_commits", "repository_size", "language_diversity",
                            "code_quality"} THEN 4
    ELSE IF check_name = "readme_quality" THEN 5
    ELSE 0

\* the stage is one the evaluation is to run
StageApplies(self, env, stage) ==
    CASE stage \in {2, 3} -> env.pages_url # None
      [] stage = 4 -> self.github_manager
      [] OTHER -> TRUE

\* a call made inside the stage raises
StageRaises(self, env, stage) ==
    CASE stage = 1 -> self.github_manager /\ env.validation.raises
      [] stage = 2 ->
            \* a network failure is an answer of the fetch, reported as failed
            /\ env.pages_url # None
            /\ env.fetch.raises \notin {None, "RequestException"}
      [] stage = 3 ->
            /\ env.pages_url # None
            /\ \/ env.browser.launch_raises
               \/ env.browser.new_page_raises
               \/ env.browser.goto = "raises"
               \/ env.browser.goto = "ok" /\ env.browser.title_raises
               \/ env.browser.close_raises
      [] stage = 4 ->
            /\ self.github_manager
            /\ \/ env.repo.raises = "get_repository"
               \/ env.repo.found /\ env.repo.raises # None
      [] stage = 5 -> self.github_manager /\ env.readme.raises

ErrorsOfStage(results, stage) ==
    {i \in 1..Len(results) :
        results[i].status = ERROR /\ StageOf(results[i].check_name) = stage}

StageRan(stages, stage) == \E i \in 1..Len(stages) : stages[i] = stage

\* C10 as stated: when a stage of evaluate_repository raises inside, the
\* returned list has exactly one error result of that stage, and every later
\* stage that applies has still run
C10_Original ==
    evaluation.op = "evaluated" =>
        \A stage \in 1..5 :
            StageRaises(evaluation.self, evaluation.env, stage) =>
                /\ Cardinality(ErrorsOfStage(evaluation.ret.results, stage)) = 1
                /\ \A later \in (stage + 1)..5 :
                       StageApplies(evaluation.self, evaluation.env, later) =>
                           StageRan(evaluation.ret.stages, later)

---------------------------------------------------------------------------
(* C11 *)

Evaluated == evaluation.op = "evaluated"

\* the results named check_name in a list
ResultsNamed(results, check_name) ==
    {i \in 1..Len(results) : results[i].check_name = check_name}

\* C11 as stated: what every stage handed back is in the returned list, in
\* order, and each sub-check that ran has exactly one result there: so for
\* the three checks of stage 4 when the repository was read without error
C11_Original ==
    Evaluated =>
        LET ret == evaluation.ret
            env == evaluation.env
        IN  /\ ret.results = ret.emitted[1] \o ret.emitted[2] \o ret.emitted[3]
                                 \o ret.emitted[4] \o ret.emitted[5]
            /\ (StageRan(ret.stages, 4) /\ env.repo.found /\ env.repo.raises = None) =>
                  \A check_name \in {"has_commits", "repository_size",
                                     "language_diversity"} :
                      Cardinality(ResultsNamed(ret.results, check_name)) = 1

---------------------------------------------------------------------------
(* C12 *)

RepositoryReachable ==
    /\ Evaluated
    /\ evaluation.self.github_manager
    /\ ~evaluation.env.validation.raises
    /\ evaluation.env.validation.valid

FlagResult(check_name, flag) ==
    IF flag THEN CheckResult(check_name, PASSED, <<1, 1>>)
    ELSE CheckResult(check_name, FAILED, <<0, 1>>)

\* C12: with the repository host available and the repository reachable,
\* stage 1 hands back repository_exists passed with score 1.0, then
\* license_check and readme_exists, each passed with score 1.0 if its flag is
\* set and failed with score 0.0 if not
C12_Stage1Results ==
    RepositoryReachable =>
        evaluation.ret.emitted[1] =
            <<CheckResult("repository_exists", PASSED, <<1, 1>>),
              FlagResult("license_check", evaluation.env.validation.has_license),
              FlagResult("readme_exists", evaluation.env.validation.has_readme)>>

\* a reachable repository with no license and no README: repository_exists
\* is passed, the other two are failed with score 0.0
C12_Witness ==
    /\ RepositoryReachable
    /\ ~evaluation.env.validation.has_license
    /\ ~evaluation.env.validation.has_readme
    /\ evaluation.ret.emitted[1][1].status = PASSED
    /\ evaluation.ret.emitted[1][2] = CheckResult("license_check", FAILED, <<0, 1>>)
    /\ evaluation.ret.emitted[1][3] = CheckResult("readme_exists", FAILED, <<0, 1>>)

---------------------------------------------------------------------------
(* C13 *)

ReadmeScored ==
    /\ Evaluated
    /\ StageRan(evaluation.ret.stages, 5)
    /\ evaluation.self.github_manager
    /\ ~evaluation.env.readme.raises
    /\ evaluation.env.repo.found
    /\ evaluation.env.readme.found

\* C13: the readme_quality score is (heuristics satisfied)/6, and the status
\* is passed if at least 3 of the 6 are satisfied and failed if not
C13_ReadmeScore ==
    ReadmeScored =>
        LET result == evaluation.ret.emitted[5][1]
            satisfied == evaluation.env.readme.heuristics
        IN  /\ result.check_name = "readme_quality"
            /\ result.score[1] * 6 = satisfied * result.score[2]
            /\ result.status = (IF satisfied >= 3 THEN PASSED ELSE FAILED)

\* exactly three heuristics are satisfied, and the result is passed
C13_Witness ==
    /\ ReadmeScored
    /\ evaluation.env.readme.heuristics = 3
    /\ evaluation.ret.emitted[5][1].status = PASSED

---------------------------------------------------------------------------
(* C14 *)

PageChecked ==
    /\ Evaluated
    /\ StageRan(evaluation.ret.stages, 3)
    /\ ~evaluation.env.browser.launch_raises
    /\ ~evaluation.env.browser.new_page_raises
    /\ evaluation.env.browser.goto = "ok"
    /\ ~evaluation.env.browser.title_raises
    /\ ~evaluation.env.browser.close_raises

\* C14 as stated: a page that throws one uncaught error between the start of
\* navigation and the end of the wait gets javascript_errors failed, score
\* 0.0, with one error listed; with more than five errors the first five are
\* listed
C14_Original ==
    PageChecked =>
        LET thrown == evaluation.env.browser.page_errors_loading
                          + evaluation.env.browser.page_errors_settling
            result == evaluation.ret.emitted[3][1]
        IN  /\ result.check_name = "javascript_errors"
            /\ thrown = 1 =>
                  /\ result.status = FAILED
                  /\ result.score = <<0, 1>>
                  /\ Len(result.logs.errors) = 1
            /\ thrown > 5 =>
                  /\ result.status = FAILED
                  /\ result.logs.errors = <<1, 2, 3, 4, 5>>

---------------------------------------------------------------------------
(* C20 *)

\* C20 as stated: stage 2 runs exactly when a page URL is given, and then
\* hands back one pages_availability result, passed with score 1.0 if the
\* fetch answers 200, failed with score 0.0 for another status or a network
\* failure; without a page URL stages 2 and 3 contribute nothing
C20_Original ==
    Evaluated =>
        LET ret == evaluation.ret
            env == evaluation.env
        IN  /\ StageRan(ret.stages, 2) <=> env.pages_url # None
            /\ env.pages_url # None =>
                  ret.emitted[2] =
                      <<IF env.fetch.raises = None /\ env.fetch.status_code = 200
                        THEN CheckResult("pages_availability", PASSED, <<1, 1>>)
                        ELSE CheckResult("pages_availability", FAILED, <<0, 1>>)>>
            /\ env.pages_url = None =>
                  \A i \in 1..Len(ret.results) :
                      StageOf(ret.results[i].check_name) \notin {2, 3}

---------------------------------------------------------------------------
(* Submission intake: evaluation_api.py /evaluate and api_server.py
   /api/evaluate, both on the tables of database.py *)

EVALUATION_API == "/evaluate"
API_SERVER == "/api/evaluate"
Endpoints == {EVALUATION_API, API_SERVER}

required_fields == <<"email", "task", "round", "nonce", "repo_url", "commit_sha">>

\* a request body with every field
Submission(task, nonce) ==
    [email |-> "carol@example.com", task |-> task, round |-> 1, nonce |-> nonce,
     repo_url |-> "https://github.com/carol/sales-summary",
     commit_sha |-> "4e55e8e", pages_url |-> "https://carol.github.io/sales-summary/"]

\* The request bodies: the right nonce for either task, the nonce of the other
\* task, a task nobody created, and a body without a nonce
Payloads ==
    {Submission("sum-of-sales-4e55e", initial_tasks["sum-of-sales-4e55e"].nonce),
     Submission("markdown-to-html-c834c", initial_tasks["markdown-to-html-c834c"].nonce),
     Submission("sum-of-sales-4e55e", initial_tasks["markdown-to-html-c834c"].nonce),
     Submission("captcha-solver-00000", initial_tasks["sum-of-sales-4e55e"].nonce),
     [email |-> "carol@example.com", task |-> "sum-of-sales-4e55e", round |-> 1,
      repo_url |-> "https://github.com/carol/sales-summary", commit_sha |-> "4e55e8e"]}

\* data.get(key)
get(data, key) == IF key \in DOMAIN data THEN data[key] ELSE None

\* the first required field the body lacks, 0 if it has them all
missing_field(data) ==
    IF \A i \in 1..Len(required_fields) : required_fields[i] \in DOMAIN data THEN 0
    ELSE CHOOSE i \in 1..Len(required_fields) :
            /\ required_fields[i] \notin DOMAIN data
            /\ \A j \in 1..(i - 1) : required_fields[j] \in DOMAIN data

\* the task statuses in which each handler takes a submission
accepted_statuses(endpoint) ==
    IF endpoint = EVALUATION_API THEN {TaskStatus.SENT, TaskStatus.RECEIVED}
    ELSE {TaskStatus.SENT}

\* The checks both handlers make before they write anything, on the row
\* get_task_by_id returns: the 400 response, or code 0 to go on
validate_submission(endpoint, data, table) ==
    IF missing_field(data) # 0
    THEN [code |-> 400,
          error |-> "Missing required field: " \o required_fields[missing_field(data)]]
    ELSE IF data.task \notin DOMAIN table
    THEN [code |-> 400, error |-> "Invalid task ID"]
    ELSE IF table[data.task].nonce # data.nonce
    THEN [code |-> 400, error |-> "Invalid nonce"]
    ELSE IF table[data.task].status \notin accepted_statuses(endpoint)
    THEN [code |-> 400, error |-> "Task not in correct state"]
    ELSE [code |-> 0, error |-> ""]

\* db_manager.update_task_status
update_task_status(table, task_id, status) ==
    IF task_id \in DOMAIN table THEN [table EXCEPT ![task_id].status = status]
    ELSE table

\* db_manager.create_repository: the new row, its id the next of the table
create_repository(table, task_id, repo_data) ==
    [id |-> Len(table) + 1, task_id |-> task_id, repo_url |-> repo_data.repo_url,
     commit_sha |-> repo_data.commit_sha, pages_url |-> repo_data.pages_url]

\* db_manager.add_evaluation: the new row
add_evaluation(repository_id, evaluation_data) ==
    [repository_id |-> repository_id, check_name |-> evaluation_data.check_name,
     status |-> evaluation_data.status, score |-> evaluation_data.score]

\* TaskRequest.post marks the task it has created as sent
DeliverTask(task_id) ==
    /\ tasks[task_id].status = TaskStatus.PENDING
    /\ tasks' = update_task_status(tasks, task_id, TaskStatus.SENT)
    /\ UNCHANGED <<repositories, evaluations, evaluation_queue, requests, worker,
                   enqueued, handled>>
    /\ UNCHANGED <<now, templates, result_cache, uuid_issued, ref, last, evaluation,
                   limiter, submissions, generations>>

\* A request arrives and its handler validates it: either the 400 response,
\* or the handler goes on to write
Receive(i, endpoint, data) ==
    /\ requests[i].pc = "none"
    /\ \A j \in 1..(i - 1) : requests[j].pc # "none"
    /\ LET response == validate_submission(endpoint, data, tasks)
       IN  requests' = [requests EXCEPT ![i] =
               [pc |-> IF response.code = 0 THEN "update_task_status" ELSE "done",
                endpoint |-> endpoint, data |-> data, response |-> response,
                task |-> IF response.code = 0 THEN tasks[data.task].id ELSE 0,
                repository_id |-> 0]]
    /\ UNCHANGED <<tasks, repositories, evaluations, evaluation_queue, worker,
                   enqueued, handled>>
    /\ UNCHANGED <<now, templates, result_cache, uuid_issued, ref, last, evaluation,
                   limiter, submissions, generations>>

\* db_manager.update_task_status(task, TaskStatus.RECEIVED)
UpdateTaskStatus(i) ==
    /\ requests[i].pc = "update_task_status"
    /\ tasks' = update_task_status(tasks, requests[i].data.task, TaskStatus.RECEIVED)
    /\ requests' = [requests EXCEPT ![i].pc = "create_repository"]
    /\ UNCHANGED <<repositories, evaluations, evaluation_queue, worker,
                   enqueued, handled>>
    /\ UNCHANGED <<now, templates, result_cache, uuid_issued, ref, last, evaluation,
                   limiter, submissions, generations>>

\* db_manager.create_repository; api_server.py answers 200 here, and
\* evaluation_api.py goes on to queue the job
CreateRepository(i) ==
    /\ requests[i].pc = "create_repository"
    /\ LET data == requests[i].data
           repo == create_repository(repositories, requests[i].task,
                       [repo_url |-> data.repo_url, commit_sha |-> data.commit_sha,
                        pages_url |-> get(data, "pages_url")])
       IN  /\ repositories' = Append(repositories, repo)
           /\ requests' = [requests EXCEPT ![i] =
                  IF requests[i].endpoint = API_SERVER
                  THEN [@ EXCEPT !.pc = "done", !.repository_id = repo.id,
                                 !.response = [code |-> 200, error |-> ""]]
                  ELSE [@ EXCEPT !.pc = "put", !.repository_id = repo.id]]
    /\ UNCHANGED <<tasks, evaluations, evaluation_queue, worker, enqueued, handled>>
    /\ UNCHANGED <<now, templates, result_cache, uuid_issued, ref, last, evaluation,
                   limiter, submissions, generations>>

\* the job record of a submission
evaluation_job(repository_id, data) ==
    [repository_id |-> repository_id, task_id |-> data.task, repo_url |-> data.repo_url,
     commit_sha |-> data.commit_sha, pages_url |-> get(data, "pages_url")]

\* self.evaluation_queue.put(evaluation_job), then the 200 response
Put(i) ==
    /\ requests[i].pc = "put"
    /\ LET job == evaluation_job(requests[i].repository_id, requests[i].data)
       IN  /\ evaluation_queue' = Append(evaluation_queue, job)
           /\ enqueued' = Append(enqueued, job)
    /\ requests' = [requests EXCEPT ![i] =
           [@ EXCEPT !.pc = "done", !.response = [code |-> 200, error |-> ""]]]
    /\ UNCHANGED <<tasks, repositories, evaluations, worker, handled>>
    /\ UNCHANGED <<now, templates, result_cache, uuid_issued, ref, last, evaluation,
                   limiter, submissions, generations>>

---------------------------------------------------------------------------
(* The worker thread of evaluation_api.py *)

\* A buggy variant: the newest job first
queue_get_newest(q) ==
    [job |-> q[Len(q)], rest |-> SubSeq(q, 1, Len(q) - 1)]

\* queue.Queue.get on a queue that is not empty: first in, first out
queue_get(q) ==
    [job |-> Head(q), rest |-> Tail(q)]

system_error == [check_name |-> "system_error", status |-> "error", score |-> <<0, 1>>]

\* A buggy variant: the exception is logged and nothing is stored
on_exception_logged(table, job) ==
    table

\* the except branch of _process_evaluation: one system_error row
on_exception(table, job) ==
    Append(table, add_evaluation(job.repository_id, system_error))

\* What one run of a job can meet: the evaluator returns its results and the
\* table takes them all; the import or the evaluator itself raises; the table
\* rejects the second result
Runs ==
    {[raises |-> FALSE, rejected |-> 0],
     [raises |-> TRUE, rejected |-> 0],
     [raises |-> FALSE, rejected |-> 2]}

\* the repository the jobs point at: no repository host configured, no page
WorkerEnvironment ==
    CHOOSE env \in Environments :
        /\ env.pages_url = None
        /\ ~env.validation.raises /\ ~env.validation.valid
        /\ ~env.validation.has_license /\ ~env.validation.has_readme
        /\ env.repo.raises = None /\ ~env.repo.found
        /\ ~env.readme.raises /\ ~env.readme.found

\* evaluate_repository(repo_url, commit_sha, pages_url) of evaluate.py
evaluate_repository_results ==
    evaluate_repository([github_manager |-> FALSE], WorkerEnvironment).results

\* job = self.evaluation_queue.get(timeout=1); on an empty queue the get
\* raises queue.Empty and the loop polls again, which changes nothing
Get ==
    /\ worker.pc = "get"
    /\ evaluation_queue # <<>>
    /\ LET got == queue_get(evaluation_queue)
       IN  /\ worker' = [pc |-> "evaluate", job |-> got.job]
           /\ evaluation_queue' = got.rest
    /\ UNCHANGED <<tasks, repositories, evaluations, requests, enqueued, handled>>
    /\ UNCHANGED <<now, templates, result_cache, uuid_issued, ref, last, evaluation,
                   limiter, submissions, generations>>

\* the job is finished with, whether it raised or not: task_done, next poll
Finished(job, raised) ==
    /\ worker' = [pc |-> "get"]
    /\ handled' = Append(handled, [job |-> job, raised |-> raised,
                                    enqueued_by_then |-> Len(enqueued)])

\* _process_evaluation up to the first add_evaluation
Evaluate ==
    /\ worker.pc = "evaluate"
    /\ \E run \in Runs :
          IF run.raises
          THEN /\ evaluations' = on_exception(evaluations, worker.job)
               /\ Finished(worker.job, TRUE)
          ELSE /\ worker' = [pc |-> "store", job |-> worker.job,
                             results |-> evaluate_repository_results,
                             next |-> 1, rejected |-> run.rejected]
               /\ UNCHANGED <<evaluations, handled>>
    /\ UNCHANGED <<tasks, repositories, evaluation_queue, requests, enqueued>>
    /\ UNCHANGED <<now, templates, result_cache, uuid_issued, ref, last, evaluation,
                   limiter, submissions, generations>>

\* for result in results: db_manager.add_evaluation(repository_id, result)
Store ==
    /\ worker.pc = "store"
    /\ IF worker.next = worker.rejected
       THEN /\ evaluations' = on_exception(evaluations, worker.job)
            /\ Finished(worker.job, TRUE)
       ELSE /\ evaluations' = Append(evaluations,
                   add_evaluation(worker.job.repository_id, worker.results[worker.next]))
            /\ IF worker.next = Len(worker.results)
               THEN Finished(worker.job, FALSE)
               ELSE /\ worker' = [worker EXCEPT !.next = @ + 1]
                    /\ UNCHANGED handled
    /\ UNCHANGED <<tasks, repositories, evaluation_queue, requests, enqueued>>
    /\ UNCHANGED <<now, templates, result_cache, uuid_issued, ref, last, evaluation,
                   limiter, submissions, generations>>

\* a step of a request handler
HandlerNext ==
    \/ \E i \in 1..MaxRequests : UpdateTaskStatus(i)
    \/ \E i \in 1..MaxRequests : CreateRepository(i)
    \/ \E i \in 1..MaxRequests : Put(i)

\* a step of the worker thread
WorkerNext ==
    \/ Get
    \/ Evaluate
    \/ Store

NextIntake ==
    \/ \E task_id \in DOMAIN initial_tasks : DeliverTask(task_id)
    \/ \E i \in 1..MaxRequests, endpoint \in Endpoints, data \in Payloads :
          Receive(i, endpoint, data)
    \/ HandlerNext
    \/ WorkerNext

SpecIntake == Init /\ [][NextIntake]_vars

\* The same, with the handler threads and the worker thread scheduled: a
\* handler that has started runs to its response, and the worker, a thread
\* of its own that loops for ever, gets to take its next step
SpecIntakeFair ==
    /\ Init
    /\ [][NextIntake]_vars
    /\ WF_vars(HandlerNext)
    /\ WF_vars(WorkerNext)

---------------------------------------------------------------------------
(* C15 *)

\* what the claim lists: a field missing, the task unknown, another nonce
\* than the stored one, or the task not sent and waiting for its submission
Invalid(data) ==
    \/ \E i \in 1..Len(required_fields) : required_fields[i] \notin DOMAIN data
    \/ data.task \notin DOMAIN tasks
    \/ tasks[data.task].nonce # data.nonce
    \/ tasks[data.task].status # TaskStatus.SENT

\* request i is received in this step
Received(i) == requests[i].pc = "none" /\ requests'[i].pc # "none"

\* C15 as stated: a request that lacks a field, names an unknown task, brings
\* another nonce, or is for a task that is not waiting for its submission, is
\* answered 4xx at once, and the task statuses, the repositories, the queue
\* and the stored results are as they were
C15_Original ==
    [][\A i \in 1..MaxRequests :
          (Received(i) /\ Invalid(requests'[i].data)) =>
              /\ requests'[i].pc = "done"
              /\ requests'[i].response.code \in 400..499
              /\ UNCHANGED <<tasks, repositories, evaluation_queue, evaluations>>]_vars

---------------------------------------------------------------------------
(* C16 *)

Accepted(i) == requests[i].pc = "done" /\ requests[i].response.code = 200

\* C16 as stated: of all the submissions made for a task, at either endpoint
\* and in any interleaving, at most one is accepted
C16_Original ==
    \A task_id \in DOMAIN tasks :
        Cardinality({i \in 1..MaxRequests :
                        Accepted(i) /\ requests[i].data.task = task_id}) <= 1

---------------------------------------------------------------------------
(* C17 *)

\* a job for the repository record of request i has been put on the queue
Enqueued(i) ==
    /\ requests[i].pc # "none"
    /\ \E k \in 1..Len(enqueued) : enqueued[k].repository_id = requests[i].repository_id

\* a result is stored for the repository record of request i
Persisted(i) ==
    /\ requests[i].pc # "none"
    /\ \E n \in 1..Len(evaluations) :
           evaluations[n].repository_id = requests[i].repository_id

\* C17 as stated: every accepted submission has a job on the queue, and with
\* the threads scheduled it comes to have a stored result
C17_Original ==
    \A i \in 1..MaxRequests :
        /\ [](Accepted(i) => Enqueued(i))
        /\ Accepted(i) ~> Persisted(i)

---------------------------------------------------------------------------
(* C18 *)

\* the system_error rows stored for a repository
SystemErrors(repository_id) ==
    {n \in 1..Len(evaluations) :
        /\ evaluations[n].repository_id = repository_id
        /\ evaluations[n].check_name = "system_error"}

\* the worker finishes with a job in this step, the processing having raised
RaisedNow ==
    /\ Len(handled') = Len(handled) + 1
    /\ handled'[Len(handled')].raised

---------------------------------------------------------------------------
(* C19 *)

\* the jobs the worker has finished with
HandledJobs == [k \in 1..Len(handled) |-> handled[k].job]

\* the job the worker holds
CurrentJob == IF worker.pc = "get" THEN <<>> ELSE <<worker.job>>

\* where a repository's job stands in the order of the puts
Position(repository_id) ==
    CHOOSE k \in 1..Len(enqueued) : enqueued[k].repository_id = repository_id

---------------------------------------------------------------------------
(* C21 *)

\* the results of stage 3 named check_name
Stage3Named(check_name) ==
    {i \in 1..Len(evaluation.ret.emitted[3]) :
        evaluation.ret.emitted[3][i].check_name = check_name}

\* C21 as stated: a page that writes errors to the console during the wait
\* and throws none gets a console_errors result with score 0.5, while
\* javascript_errors is passed and page_title and page_content are reported
C21_Original ==
    (/\ PageChecked
     /\ evaluation.env.browser.console_errors > 0
     /\ evaluation.env.browser.page_errors_loading = 0
     /\ evaluation.env.browser.page_errors_settling = 0) =>
        /\ Cardinality(Stage3Named("console_errors")) = 1
        /\ \A i \in Stage3Named("console_errors") :
               evaluation.ret.emitted[3][i].score = <<1, 2>>
        /\ \E i \in Stage3Named("javascript_errors") :
               evaluation.ret.emitted[3][i].status = PASSED
        /\ Stage3Named("page_title") # {}
        /\ Stage3Named("page_content") # {}

---------------------------------------------------------------------------
(* C22 *)

NavigationTimedOut ==
    /\ Evaluated
    /\ StageRan(evaluation.ret.stages, 3)
    /\ ~evaluation.env.browser.launch_raises
    /\ ~evaluation.env.browser.new_page_raises
    /\ evaluation.env.browser.goto = "timeout"

\* C22: when the navigation times out, stage 3 adds to the returned list
\* one result, page_load failed with score 0.0, and stages 4 and 5 run as
\* they would have: stage 4 where the repository host is configured, stage 5
\* always, its readme_quality result the last of the list
C22_TimeoutIsOneFailedResult ==
    NavigationTimedOut =>
        LET ret == evaluation.ret IN
        /\ ret.emitted[3] = <<CheckResult("page_load", FAILED, <<0, 1>>)>>
        /\ Cardinality({i \in 1..Len(ret.results) :
                           StageOf(ret.results[i].check_name) = 3}) = 1
        /\ \E i \in 1..Len(ret.results) :
               ret.results[i] = CheckResult("page_load", FAILED, <<0, 1>>)
        /\ StageRan(ret.stages, 4) <=> evaluation.self.github_manager
        /\ StageRan(ret.stages, 5)
        /\ ret.results[Len(ret.results)].check_name = "readme_quality"

\* the navigation timed out and stage 4 went on to report on the repository
C22_Witness ==
    /\ NavigationTimedOut
    /\ evaluation.self.github_manager
    /\ \E i \in 1..Len(evaluation.ret.results) :
           evaluation.ret.results[i].check_name = "page_load"
    /\ \E i \in 1..Len(evaluation.ret.results) :
           evaluation.ret.results[i].check_name = "has_commits"

---------------------------------------------------------------------------
(* C23 *)

\* C23 as stated: whenever stage 3 has launched the browser, browser.close()
\* has completed by the time the stage returns
C23_Original ==
    (Evaluated /\ StageRan(evaluation.ret.stages, 3)) =>
        (run_basic_dynamic_checks(evaluation.env).launched =>
            run_basic_dynamic_checks(evaluation.env).closed)

---------------------------------------------------------------------------
(* C24 *)

RepositoryRead ==
    /\ Evaluated
    /\ StageRan(evaluation.ret.stages, 4)
    /\ evaluation.env.repo.found
    /\ evaluation.env.repo.raises = None

\* C24: stage 4 runs only with the repository host configured; on a
\* repository it can read it reports has_commits, passed if there are commits
\* and failed if not, then repository_size, passed, only for a size above 0,
\* then language_diversity, passed, with score 0.8 for several languages and
\* 0.6 for one, and nothing for none
C24_CodeQualityResults ==
    /\ (Evaluated /\ StageRan(evaluation.ret.stages, 4)) => evaluation.self.github_manager
    /\ RepositoryRead =>
          LET repo == evaluation.env.repo IN
          evaluation.ret.emitted[4] =
              <<IF repo.commit_count > 0
                THEN CheckResult("has_commits", PASSED, <<1, 1>>)
                ELSE CheckResult("has_commits", FAILED, <<0, 1>>)>>
              \o (IF repo.size > 0
                  THEN <<CheckResult("repository_size", PASSED, <<1, 1>>)>> ELSE <<>>)
              \o (IF repo.languages > 1
                  THEN <<CheckResult("language_diversity", PASSED, <<4, 5>>)>>
                  ELSE IF repo.languages = 1
                  THEN <<CheckResult("language_diversity", PASSED, <<3, 5>>)>>
                  ELSE <<>>)

\* a repository without commits, of size 0, in one language: has_commits
\* failed, no repository_size, language_diversity with score 0.6
C24_Witness ==
    /\ RepositoryRead
    /\ evaluation.env.repo.commit_count = 0
    /\ evaluation.env.repo.size = 0
    /\ evaluation.env.repo.languages = 1
    /\ evaluation.ret.emitted[4] =
           <<CheckResult("has_commits", FAILED, <<0, 1>>),
             CheckResult("language_diversity", PASSED, <<3, 5>>)>>

---------------------------------------------------------------------------
(* C25 *)

\* C25 as stated: without the repository host the returned list is the
\* github_integration error, then, if a page URL is given, the result of the
\* page fetch and the results of the dynamic checks, then the readme_quality
\* error, and no result of stage 4
C25_Original ==
    (Evaluated /\ ~evaluation.self.github_manager) =>
        LET ret == evaluation.ret
            between == IF evaluation.env.pages_url # None
                       THEN ret.emitted[2] \o ret.emitted[3] ELSE <<>>
        IN  /\ ret.results = <<CheckResult("github_integration", ERROR, <<0, 1>>)>>
                                 \o between
                                 \o <<CheckResult("readme_quality", ERROR, <<0, 1>>)>>
            /\ evaluation.env.pages_url # None =>
                   /\ Cardinality(ResultsNamed(ret.emitted[2], "pages_availability")) = 1
                   /\ ret.emitted[3] # <<>>
            /\ \A i \in 1..Len(ret.results) : StageOf(ret.results[i].check_name) # 4

---------------------------------------------------------------------------
(* C30 *)

\* C30 as stated: once the worker has finished with a job and the results
\* are stored, the task of the job is completed, or failed if the run raised;
\* it is no longer received
C30_Original ==
    \A k \in 1..Len(handled) :
        tasks[handled[k].job.task_id].status =
            (IF handled[k].raised THEN TaskStatus.FAILED ELSE TaskStatus.COMPLETED)

\* ---------------------------------------------------------------------------
\* The rate limiter of api_server.py
\* ---------------------------------------------------------------------------

\* time.time(), in seconds
time(c) == c * SecondsPerClockTick

\* {k: v for k, v in self.rate_limits.items() if v['timestamp'] > window_start}
\* a new dict holding the same entry objects
fresh_entries(limits, objs, window_start) ==
    LET kept == {k \in DOMAIN limits : objs[limits[k]].timestamp > window_start}
    IN [k \in kept |-> limits[k]]

\* APIServer._check_rate_limit run from its first line to its return with
\* nothing else running
check_rate_limit(limits, objs, email, current_time) ==
    LET window_start == current_time - Window
        cleaned == fresh_entries(limits, objs, window_start)
    IN IF email \in DOMAIN cleaned
       THEN LET id == cleaned[email]
                entry == objs[id]
            IN IF entry.count >= RATE_LIMIT_PER_MINUTE
               THEN [ret |-> FALSE, rate_limits |-> cleaned, entries |-> objs]
               ELSE [ret |-> TRUE, rate_limits |-> cleaned,
                     entries |-> [objs EXCEPT ![id] =
                                    [count |-> entry.count + 1,
                                     timestamp |-> current_time]]]
       ELSE [ret |-> TRUE,
             rate_limits |-> [k \in DOMAIN cleaned \cup {email} |->
                                IF k = email THEN Len(objs) + 1 ELSE cleaned[k]],
             entries |-> Append(objs, [count |-> 1, timestamp |-> current_time])]

\* The limiter's clock advances
TickClock ==
    /\ clock < MaxClock
    /\ clock' = clock + 1
    /\ UNCHANGED <<rate_limits, entries, checked, callers, sweeper>>
    /\ UNCHANGED <<now, templates, result_cache, uuid_issued, ref, last, evaluation,
                   intake, submissions, generations>>

\* One request reaches self.check_rate_limit(email) and the call returns
CheckRateLimit(email) ==
    /\ Len(checked) < MaxChecks
    /\ LET out == check_rate_limit(rate_limits, entries, email, time(clock))
       IN /\ rate_limits' = out.rate_limits
          /\ entries' = out.entries
          /\ checked' = Append(checked, [email |-> email,
                                         current_time |-> time(clock),
                                         ret |-> out.ret])
    /\ UNCHANGED <<clock, callers, sweeper>>
    /\ UNCHANGED <<now, templates, result_cache, uuid_issued, ref, last, evaluation,
                   intake, submissions, generations>>

\* The sweeper wakes between two requests and runs its loop body once
Cleanup ==
    /\ sweeper.pc = "sleep"
    /\ time(clock) >= sweeper.due
    /\ rate_limits' = fresh_entries(rate_limits, entries, time(clock) - Window)
    /\ sweeper' = [sweeper EXCEPT !.due = time(clock) + SweepInterval]
    /\ UNCHANGED <<clock, entries, checked, callers>>
    /\ UNCHANGED <<now, templates, result_cache, uuid_issued, ref, last, evaluation,
                   intake, submissions, generations>>

\* A server that has been up, with no request yet, for any part of the
\* sweeper's first sleep
InitRate ==
    /\ InitGenerator
    /\ evaluation = NoEvaluation
    /\ InitIntake
    /\ InitFrontend
    /\ \E k \in 0..MaxClock : InitLimiterDue(time(k))

NextRate ==
    \/ TickClock
    \/ \E email \in Emails : CheckRateLimit(email)
    \/ Cleanup

SpecRate == InitRate /\ [][NextRate]_vars

\* the requests of checked[k]'s identity that were accepted before it, during
\* the 60 seconds preceding it
AcceptedBefore(k) ==
    {j \in 1..(k - 1) :
        /\ checked[j].email = checked[k].email
        /\ checked[j].ret
        /\ checked[j].current_time > checked[k].current_time - Window}

\* C26: in single-threaded use a request is accepted if and only if fewer
\* than RATE_LIMIT_PER_MINUTE requests of its identity were accepted during
\* the 60 seconds preceding it
C26_Original ==
    \A k \in 1..Len(checked) :
        checked[k].ret <=> Cardinality(AcceptedBefore(k)) < RATE_LIMIT_PER_MINUTE

\* ---------------------------------------------------------------------------
\* The rate limiter with request threads and the sweeper running together:
\* every read and write of self.rate_limits and of an entry is a step
\* ---------------------------------------------------------------------------

Idle == [pc |-> "idle"]

\* what every step of the limiter's threads leaves alone
LimiterOnly ==
    UNCHANGED <<now, templates, result_cache, uuid_issued, ref, last, evaluation,
                intake, submissions, generations>>

\* the call returns: the answer is recorded and the thread is free
Return(t, ret) ==
    /\ checked' = Append(checked, [email |-> callers[t].email,
                                   current_time |-> callers[t].current_time,
                                   ret |-> ret])
    /\ callers' = [callers EXCEPT ![t] = Idle]

\* current_time = time.time(); window_start = current_time - 60
Call(t, email) ==
    /\ callers[t].pc = "idle"
    /\ Len(checked) + Cardinality({u \in 1..MaxCallers : callers[u].pc # "idle"})
         < MaxChecks
    /\ callers' = [callers EXCEPT ![t] =
                     [pc |-> "clean", email |-> email, current_time |-> time(clock)]]
    /\ UNCHANGED <<clock, rate_limits, entries, checked, sweeper>>
    /\ LimiterOnly

\* {k: v for k, v in self.rate_limits.items() if v['timestamp'] > window_start}
\* is built from the dict the attribute holds now
Clean(t) ==
    /\ callers[t].pc = "clean"
    /\ callers' = [callers EXCEPT ![t] =
                     [pc |-> "rebind", email |-> @.email, current_time |-> @.current_time,
                      built |-> fresh_entries(rate_limits, entries,
                                              @.current_time - Window)]]
    /\ UNCHANGED <<clock, rate_limits, entries, checked, sweeper>>
    /\ LimiterOnly

\* self.rate_limits = <the dict just built>
Rebind(t) ==
    /\ callers[t].pc = "rebind"
    /\ rate_limits' = callers[t].built
    /\ callers' = [callers EXCEPT ![t] =
                     [pc |-> "get", email |-> @.email, current_time |-> @.current_time]]
    /\ UNCHANGED <<clock, entries, checked, sweeper>>
    /\ LimiterOnly

\* entry = self.rate_limits.get(email); if entry:
GetEntry(t) ==
    /\ callers[t].pc = "get"
    /\ callers' = [callers EXCEPT ![t] =
                     IF @.email \in DOMAIN rate_limits
                     THEN [pc |-> "compare", email |-> @.email,
                           current_time |-> @.current_time,
                           entry |-> rate_limits[@.email]]
                     ELSE [pc |-> "insert", email |-> @.email,
                           current_time |-> @.current_time]]
    /\ UNCHANGED <<clock, rate_limits, entries, checked, sweeper>>
    /\ LimiterOnly

\* if entry['count'] >= config.RATE_LIMIT_PER_MINUTE: return False
Compare(t) ==
    /\ callers[t].pc = "compare"
    /\ IF entries[callers[t].entry].count >= RATE_LIMIT_PER_MINUTE
       THEN Return(t, FALSE)
       ELSE /\ callers' = [callers EXCEPT ![t].pc = "load"]
            /\ UNCHANGED checked
    /\ UNCHANGED <<clock, rate_limits, entries, sweeper>>
    /\ LimiterOnly

\* entry['count'] += 1, first half: the count is read
Load(t) ==
    /\ callers[t].pc = "load"
    /\ callers' = [callers EXCEPT ![t] =
                     [pc |-> "store", email |-> @.email, current_time |-> @.current_time,
                      entry |-> @.entry, count |-> entries[@.entry].count]]
    /\ UNCHANGED <<clock, rate_limits, entries, checked, sweeper>>
    /\ LimiterOnly

\* entry['count'] += 1, second half: the count read plus one is written
StoreCount(t) ==
    /\ callers[t].pc = "store"
    /\ entries' = [entries EXCEPT ![callers[t].entry].count = callers[t].count + 1]
    /\ callers' = [callers EXCEPT ![t].pc = "stamp"]
    /\ UNCHANGED <<clock, rate_limits, checked, sweeper>>
    /\ LimiterOnly

\* entry['timestamp'] = current_time; return True
Stamp(t) ==
    /\ callers[t].pc = "stamp"
    /\ entries' = [entries EXCEPT ![callers[t].entry].timestamp =
                                      callers[t].current_time]
    /\ Return(t, TRUE)
    /\ UNCHANGED <<clock, rate_limits, sweeper>>
    /\ LimiterOnly

\* self.rate_limits[email] = {'count': 1, 'timestamp': current_time}; return True
Insert(t) ==
    /\ callers[t].pc = "insert"
    /\ entries' = Append(entries, [count |-> 1,
                                   timestamp |-> callers[t].current_time])
    /\ rate_limits' = [k \in DOMAIN rate_limits \cup {callers[t].email} |->
                         IF k = callers[t].email THEN Len(entries) + 1
                         ELSE rate_limits[k]]
    /\ Return(t, TRUE)
    /\ UNCHANGED <<clock, sweeper>>
    /\ LimiterOnly

\* the sweeper's sleep is over: it builds its dict from the one the attribute
\* holds now
SweepRead ==
    /\ sweeper.pc = "sleep"
    /\ time(clock) >= sweeper.due
    /\ sweeper' = [pc |-> "rebind", due |-> sweeper.due,
                   built |-> fresh_entries(rate_limits, entries,
                                           time(clock) - Window)]
    /\ UNCHANGED <<clock, rate_limits, entries, checked, callers>>
    /\ LimiterOnly

\* the sweeper binds self.rate_limits to its dict and sleeps again
SweepRebind ==
    /\ sweeper.pc = "rebind"
    /\ rate_limits' = sweeper.built
    /\ sweeper' = [pc |-> "sleep", due |-> time(clock) + SweepInterval]
    /\ UNCHANGED <<clock, entries, checked, callers>>
    /\ LimiterOnly

CallerNext(t) ==
    \/ \E email \in Emails : Call(t, email)
    \/ Clean(t)
    \/ Rebind(t)
    \/ GetEntry(t)
    \/ Compare(t)
    \/ Load(t)
    \/ StoreCount(t)
    \/ Stamp(t)
    \/ Insert(t)

\* A server with no request yet at the moment the sweeper's sleep ends
InitRateThreads ==
    /\ InitGenerator
    /\ evaluation = NoEvaluation
    /\ InitIntake
    /\ InitFrontend
    /\ InitLimiterDue(0)

NextRateThreads ==
    \/ \E t \in 1..MaxCallers : CallerNext(t)
    \/ SweepRead
    \/ SweepRebind

SpecRateThreads == InitRateThreads /\ [][NextRateThreads]_vars

\* no thread is inside the limiter
Quiet ==
    /\ \A t \in 1..MaxCallers : callers[t].pc = "idle"
    /\ sweeper.pc = "sleep"

\* the count self.rate_limits holds for the identity, none being 0
StoredCount(email) ==
    IF email \in DOMAIN rate_limits THEN entries[rate_limits[email]].count ELSE 0

\* the identity's requests accepted in the window that ends now
AcceptedInWindow(email) ==
    {k \in 1..Len(checked) :
        /\ checked[k].email = email
        /\ checked[k].ret
        /\ checked[k].current_time > time(clock) - Window}

\* C27: with request threads and the sweeper running together no counted
\* request is lost: once the threads have left the limiter an identity's
\* stored count is the number of its requests accepted in the current window,
\* which is never above the limit
C27_Original ==
    Quiet =>
        \A email \in Emails :
            /\ StoredCount(email) = Cardinality(AcceptedInWindow(email))
            /\ Cardinality(AcceptedInWindow(email)) <= RATE_LIMIT_PER_MINUTE

\* ---------------------------------------------------------------------------
\* Two threads inside generate_task of the templates of the one task
\* generator of the process
\* ---------------------------------------------------------------------------

GeneratorOnly ==
    UNCHANGED <<now, templates, uuid_issued, ref, last, evaluation, intake, limiter,
                submissions>>

\* the thread has a processed text: it goes on with the next one, or returns
\* the instance when the brief and every check are processed
Processed(g, text) ==
    IF Len(g.todo) = 1
    THEN [pc |-> "done", i |-> g.i, seed |-> g.seed, round_num |-> g.round_num,
          raise |-> None, brief |-> Head(Append(g.processed, text)),
          checks |-> Tail(Append(g.processed, text))]
    ELSE [pc |-> "text", i |-> g.i, seed |-> g.seed, round_num |-> g.round_num,
          todo |-> Tail(g.todo), processed |-> Append(g.processed, text)]

\* generate_task is entered: self._result_cache = {}, and the round's brief
\* and checks are the texts to process, in this order
EnterGenerateTask(t, i, seed, round_num) ==
    /\ generations[t].pc = "idle"
    /\ round_templates(templates[i], round_num).raise = None
    /\ result_cache' = [result_cache EXCEPT ![templates[i].template_id] = EmptyDict]
    /\ generations' = [generations EXCEPT ![t] =
          [pc |-> "text", i |-> i, seed |-> seed, round_num |-> round_num,
           todo |-> <<round_templates(templates[i], round_num).brief>>
                      \o round_templates(templates[i], round_num).checks,
           processed |-> << >>]]
    /\ GeneratorOnly

\* _process_template up to the call of _get_result_value, or to its return
\* when the text has no {result}
ProcessText(t) ==
    /\ generations[t].pc = "text"
    /\ LET g == generations[t]
           processed == Replace(Head(g.todo), "{seed}", SubSeq(g.seed, 1, 8))
       IN generations' = [generations EXCEPT ![t] =
             IF HasPlaceholder(processed, "{result}")
             THEN [pc |-> "lookup", i |-> g.i, seed |-> g.seed,
                   round_num |-> g.round_num, todo |-> g.todo,
                   processed |-> g.processed, text |-> processed]
             ELSE Processed(g, processed)]
    /\ UNCHANGED result_cache
    /\ GeneratorOnly

\* if 'result' not in self._result_cache:
Lookup(t) ==
    /\ generations[t].pc = "lookup"
    /\ generations' = [generations EXCEPT ![t].pc =
          IF "result" \notin DOMAIN result_cache[templates[generations[t].i].template_id]
          THEN "compute" ELSE "read"]
    /\ UNCHANGED result_cache
    /\ GeneratorOnly

\* self._result_cache['result'] = <the value of this thread's seed>
Compute(t) ==
    /\ generations[t].pc = "compute"
    /\ LET g == generations[t]
           computed == get_result_value(templates[g.i], EmptyDict, g.seed, Random(g.seed))
           id == templates[g.i].template_id
       IN result_cache' = [result_cache EXCEPT
             ![id] = [k \in DOMAIN result_cache[id] \cup {"result"} |-> computed.value]]
    /\ generations' = [generations EXCEPT ![t].pc = "read"]
    /\ GeneratorOnly

\* return self._result_cache['result'], and the text's {result} is replaced
ReadResult(t) ==
    /\ generations[t].pc = "read"
    /\ LET g == generations[t]
           cache == result_cache[templates[g.i].template_id]
       IN generations' = [generations EXCEPT ![t] =
             IF "result" \in DOMAIN cache
             THEN Processed(g, Replace(g.text, "{result}", str(cache["result"])))
             ELSE [pc |-> "done", i |-> g.i, seed |-> g.seed,
                   round_num |-> g.round_num, raise |-> "KeyError: 'result'"]]
    /\ UNCHANGED result_cache
    /\ GeneratorOnly

InitShared ==
    /\ InitGenerator
    /\ evaluation = NoEvaluation
    /\ InitIntake
    /\ InitLimiter
    /\ InitFrontend

NextShared ==
    \E t \in DOMAIN generations :
        \/ \E i \in 1..Len(templates), seed \in Seeds, round_num \in {1, 2} :
               EnterGenerateTask(t, i, seed, round_num)
        \/ ProcessText(t)
        \/ Lookup(t)
        \/ Compute(t)
        \/ ReadResult(t)

SpecShared == InitShared /\ [][NextShared]_vars

\* thread t has left generate_task while or after another thread generated
\* from the same template with a different seed
GeneratedBeside(t) ==
    /\ generations[t].pc = "done"
    /\ \E u \in DOMAIN generations :
          /\ u # t
          /\ generations[u].pc # "idle"
          /\ generations[u].i = generations[t].i
          /\ generations[u].seed # generations[t].seed

\* the instance the thread's call returns when nothing runs beside it
OwnInstance(t) ==
    TaskTemplate_generate_task(templates[generations[t].i], generations[t].seed,
                               generations[t].round_num, None, 0).task

\* C28: two generations on one shared template with different seeds: neither
\* fails, and the brief and the checks each returns are those of its own seed
C28_Original ==
    \A t \in DOMAIN generations :
        GeneratedBeside(t) =>
            /\ generations[t].raise = None
            /\ generations[t].brief = OwnInstance(t).brief
            /\ generations[t].checks = OwnInstance(t).checks

\* ---------------------------------------------------------------------------
\* POST /api/request-task of api_server.py
\* ---------------------------------------------------------------------------

\* time.time() at the generator's clock, in seconds
wall_time(n) == n * (3600 \div TicksPerHour)

\* The bodies posted: either student with a secret that is accepted, the
\* registered student with another secret, a secret too short for a student
\* not registered, a body with no secret, and an empty body
TaskRequests ==
    {[email |-> "carol@example.com", secret |-> "carol-secret-1"],
     [email |-> "carol@example.com", secret |-> "carol-secret-2"],
     [email |-> "dave@example.com", secret |-> "dave-secret-1"],
     [email |-> "dave@example.com", secret |-> "dave"],
     [email |-> "dave@example.com"],
     EmptyDict}

\* APIServer._validate_secret
validate_secret(table, email, secret) ==
    IF email \in DOMAIN table /\ table[email].secret # ""
    THEN table[email].secret = secret
    ELSE secret # "" /\ Len(secret) >= 8

\* db_manager.get_submission_by_email, and db_manager.create_submission when
\* there is none: the table afterwards
get_or_create_submission(table, email, secret) ==
    IF email \in DOMAIN table THEN table
    ELSE [e \in DOMAIN table \cup {email} |->
            IF e = email THEN [id |-> Cardinality(DOMAIN table) + 1, secret |-> secret]
            ELSE table[e]]

\* db_manager.create_task: the row is inserted with the default status, unless
\* task_id or nonce is the one of a row of the table (both columns are unique)
create_task(table, task_data) ==
    IF \/ task_data.task_id \in DOMAIN table
       \/ \E id \in DOMAIN table : table[id].nonce = task_data.nonce
    THEN [raise |-> "IntegrityError", table |-> table]
    ELSE [raise |-> None,
          table |-> [id \in DOMAIN table \cup {task_data.task_id} |->
                       IF id = task_data.task_id
                       THEN [id |-> Cardinality(DOMAIN table) + 1,
                             nonce |-> task_data.nonce,
                             status |-> TaskStatus.PENDING]
                       ELSE table[id]]]

\* a response of the handler that leaves every table as it is
Refused(data, code, error) ==
    /\ last' = [op |-> "TaskRequest.post", data |-> data, at |-> now, code |-> code,
                error |-> error, generated |-> FALSE]
    /\ UNCHANGED <<rate_limits, entries, checked, submissions, tasks, uuid_issued,
                   result_cache>>

\* TaskRequest.post from the first line to the response
TaskRequestPost(data) ==
    /\ Len(checked) < MaxChecks
    /\ IF DOMAIN data = {}
       THEN Refused(data, 400, "No JSON data provided")
       ELSE IF get(data, "email") = None \/ get(data, "secret") = None
       THEN Refused(data, 400, "Missing required fields")
       ELSE IF ~validate_secret(submissions, data.email, data.secret)
       THEN Refused(data, 401, "Invalid secret")
       ELSE
       LET limit == check_rate_limit(rate_limits, entries, data.email, wall_time(now))
           call == TaskGenerator_generate_task(templates, data.email, None, 1, None,
                                               uuid_issued)
           rows == get_or_create_submission(submissions, data.email, data.secret)
           created == create_task(tasks, call.out.task)
       IN /\ rate_limits' = limit.rate_limits
          /\ entries' = limit.entries
          /\ checked' = Append(checked, [email |-> data.email,
                                         current_time |-> wall_time(now),
                                         ret |-> limit.ret])
          /\ IF ~limit.ret
             THEN /\ last' = [op |-> "TaskRequest.post", data |-> data, at |-> now,
                              code |-> 429, error |-> "Rate limit exceeded",
                              generated |-> FALSE]
                  /\ UNCHANGED <<submissions, tasks, uuid_issued, result_cache>>
             ELSE /\ uuid_issued < MaxUuid
                  /\ result_cache' = IF call.touched
                                     THEN [result_cache EXCEPT
                                             ![call.template_id] = call.out.cache]
                                     ELSE result_cache
                  /\ IF call.out.raise # None
                     THEN /\ last' = [op |-> "TaskRequest.post", data |-> data,
                                      at |-> now, code |-> 500,
                                      error |-> "Failed to generate task",
                                      generated |-> FALSE]
                          /\ UNCHANGED <<submissions, tasks, uuid_issued>>
                     ELSE /\ uuid_issued' = uuid_issued + 1
                          /\ submissions' = rows
                          /\ tasks' = IF created.raise # None THEN tasks
                                      ELSE update_task_status(created.table,
                                                              call.out.task.task_id,
                                                              TaskStatus.SENT)
                          /\ last' = [op |-> "TaskRequest.post", data |-> data,
                                      at |-> now,
                                      code |-> IF created.raise # None THEN 500 ELSE 200,
                                      error |-> IF created.raise # None
                                                THEN "Failed to generate task" ELSE None,
                                      generated |-> TRUE,
                                      seed |-> call.seed,
                                      template_id |-> call.template_id,
                                      task |-> call.out.task]
    /\ UNCHANGED <<now, templates, ref, evaluation, clock, callers, sweeper,
                   repositories, evaluations, evaluation_queue, requests, worker,
                   enqueued, handled, generations>>

NextRequest ==
    \/ Tick
    \/ \E data \in TaskRequests : TaskRequestPost(data)

SpecRequest == Init /\ [][NextRequest]_vars

\* the request just answered generated a task instance
RequestGenerated == last.op = "TaskRequest.post" /\ last.generated

\* C29: every task instance the task-request flow generates is persisted:
\* the request is answered 200 and the instance is a row of the tasks table
\* with status 'sent', also when the identity asked before in the same hour
C29_Original ==
    RequestGenerated =>
        /\ last.code = 200
        /\ last.task.task_id \in DOMAIN tasks
        /\ tasks[last.task.task_id].nonce = last.task.nonce
        /\ tasks[last.task.task_id].status = TaskStatus.SENT
=============================================================================
